---------------------------- MODULE Spec2Model ----------------------------
(***************************************************************************)
(* goingenv: the archive service (internal/archive/archive.go).            *)
(*                                                                         *)
(* Pack builds a tar stream (metadata.json first, then one entry per       *)
(* file), encrypts it and writes it to the output path.  Unpack decrypts   *)
(* an archive and extracts its entries one by one into a target directory; *)
(* List decrypts it and returns the metadata entry.                        *)
(*                                                                         *)
(* Strings are sequences of tokens: "/" and "." are the separator and the  *)
(* dot, every other token is a run of characters holding neither.  The     *)
(* filesystem maps cleaned absolute paths to files and directories.  Modes *)
(* are permission bits as numbers (0o600 = 384).  The process umask is     *)
(* taken to clear no owner bit, and the process to own what it touches.    *)
(***************************************************************************)
EXTENDS Integers, Sequences, FiniteSets, TLC

(***************************************************************************)
(* Strings and path/filepath                                               *)
(***************************************************************************)

Separator == "/"

\* strings.HasPrefix
HasPrefix(s, prefix) ==
    /\ Len(prefix) <= Len(s)
    /\ SubSeq(s, 1, Len(prefix)) = prefix

\* strings.HasSuffix
HasSuffix(s, suffix) ==
    /\ Len(suffix) <= Len(s)
    /\ SubSeq(s, Len(s) - Len(suffix) + 1, Len(s)) = suffix

\* strings.Contains(s, ".."): two adjacent dots anywhere in the string
ContainsDotDot(s) ==
    \E i \in 1..(Len(s) - 1) : s[i] = "." /\ s[i + 1] = "."

\* filepath.IsAbs (unix)
IsAbs(path) == Len(path) > 0 /\ path[1] = Separator

\* strings.Split(path, "/"): the segments between separators
RECURSIVE Split(_)
Split(s) ==
    IF s = <<>> THEN << <<>> >>
    ELSE LET rest == Split(Tail(s)) IN
         IF Head(s) = Separator
         THEN << <<>> >> \o rest
         ELSE << <<Head(s)>> \o Head(rest) >> \o Tail(rest)

DotDot == <<".", ".">>

\* The segment pass of filepath.Clean: drops empty and "." segments, lets
\* ".." remove the segment before it (or vanish at the root).
RECURSIVE CleanSegs(_, _, _)
CleanSegs(segs, out, rooted) ==
    IF segs = <<>> THEN out
    ELSE LET s == Head(segs)
             r == Tail(segs) IN
         IF s = <<>> \/ s = <<".">> THEN CleanSegs(r, out, rooted)
         ELSE IF s = DotDot
              THEN IF out # <<>> /\ out[Len(out)] # DotDot
                   THEN CleanSegs(r, SubSeq(out, 1, Len(out) - 1), rooted)
                   ELSE IF rooted THEN CleanSegs(r, out, rooted)
                        ELSE CleanSegs(r, Append(out, s), rooted)
              ELSE CleanSegs(r, Append(out, s), rooted)

\* strings.Join(segs, "/")
RECURSIVE JoinSegs(_)
JoinSegs(segs) ==
    IF segs = <<>> THEN <<>>
    ELSE IF Len(segs) = 1 THEN Head(segs)
         ELSE Head(segs) \o <<Separator>> \o JoinSegs(Tail(segs))

\* filepath.Clean
Clean(path) ==
    LET Cleaned(rooted, body) ==
            IF rooted THEN <<Separator>> \o body
            ELSE IF body = <<>> THEN <<".">> ELSE body
        Segs(rooted) == Cleaned(rooted, JoinSegs(CleanSegs(Split(path), <<>>, rooted))) IN
    IF path = <<>> THEN <<".">> ELSE Segs(IsAbs(path))

\* filepath.Join(a, b): joins from the first non-empty element, then cleans
Join(a, b) ==
    IF a = <<>> /\ b = <<>> THEN <<>>
    ELSE Clean(IF a # <<>> THEN a \o <<Separator>> \o b ELSE b)

\* The index of the last separator of path, 0 when it has none
LastSep(path) ==
    LET idx == {i \in 1..Len(path) : path[i] = Separator} IN
    IF idx = {} THEN 0 ELSE CHOOSE i \in idx : \A j \in idx : j <= i

\* filepath.Dir
Dir(path) == Clean(SubSeq(path, 1, LastSep(path)))

\* The working directory of the process
Getwd == <<"/", "w">>

\* filepath.Abs
Abs(path) == Clean(IF IsAbs(path) THEN path ELSE Getwd \o <<Separator>> \o path)

(***************************************************************************)
(* Numbers                                                                 *)
(***************************************************************************)

\* Bitwise and of two naturals (Go's & on mode bits)
RECURSIVE BitAnd(_, _)
BitAnd(a, b) ==
    IF a = 0 \/ b = 0 THEN 0
    ELSE (a % 2) * (b % 2) + 2 * BitAnd(a \div 2, b \div 2)

\* 0o777, 0o600, 0o700 and 0o666 (the mode os.Create asks for)
PermMask == 511
OwnerRW == 384
DirPerm == 448
CreatePerm == 438

\* time.Time.Round(time.Second), on times counted in milliseconds:
\* archive/tar's Writer.WriteHeader rounds ModTime this way when the header
\* names no Format.
RoundSecond(t) == ((t + 500) \div 1000) * 1000

(***************************************************************************)
(* The filesystem: cleaned absolute path |-> node                          *)
(***************************************************************************)

Root == <<Separator>>

DirNode(perm) == [kind |-> "dir", data |-> "", mode |-> perm, mtime |-> 0]
FileNode(data, perm, mtime) ==
    [kind |-> "file", data |-> data, mode |-> perm, mtime |-> mtime]

IsDirAt(f, p) == p \in DOMAIN f /\ f[p].kind = "dir"
IsFileAt(f, p) == p \in DOMAIN f /\ f[p].kind = "file"

\* The proper ancestors of a cleaned absolute path
RECURSIVE Ancestors(_)
Ancestors(p) == IF p = Root THEN {} ELSE {Dir(p)} \cup Ancestors(Dir(p))

\* The errno of os.Stat(path): "" when the path exists
StatErrno(f, path) ==
    LET p == Abs(path) IN
    IF \E a \in Ancestors(p) : IsFileAt(f, a) THEN "ENOTDIR"
    ELSE IF p \in DOMAIN f THEN ""
         ELSE "ENOENT"

\* os.IsNotExist
IsNotExist(errno) == errno = "ENOENT"

\* os.MkdirAll(path, perm): fails when the path or its nearest existing
\* ancestor is a file, else creates every missing directory down to path.
MkdirAll(f, path, perm) ==
    LET p == Abs(path)
        chain == {p} \cup Ancestors(p)
        missing == chain \ DOMAIN f IN
    IF \E a \in chain : IsFileAt(f, a)
    THEN [err |-> "ENOTDIR", fs |-> f]
    ELSE [err |-> "",
          fs |-> [q \in DOMAIN f \cup missing |->
                     IF q \in DOMAIN f THEN f[q] ELSE DirNode(perm)]]

\* The paths at or below p
Subtree(f, p) ==
    {q \in DOMAIN f : q = p \/ HasPrefix(q, p \o <<Separator>>)}

\* os.Rename(oldpath, newpath): Go refuses an existing directory as the new
\* name; rename(2) refuses to put a directory over a file; otherwise the
\* new name is replaced and the old node moves with everything below it.
Rename(f, oldpath, newpath) ==
    LET o == Abs(oldpath)
        n == Abs(newpath)
        moved == Subtree(f, o)
        Moved(q) == n \o SubSeq(q, Len(o) + 1, Len(q))
        kept == DOMAIN f \ (moved \cup Subtree(f, n)) IN
    IF o \notin DOMAIN f THEN [err |-> StatErrno(f, oldpath), fs |-> f]
    ELSE IF IsDirAt(f, n) THEN [err |-> "EEXIST", fs |-> f]
    ELSE IF IsDirAt(f, o) /\ IsFileAt(f, n) THEN [err |-> "ENOTDIR", fs |-> f]
    ELSE [err |-> "",
          fs |-> [q \in kept \cup {Moved(m) : m \in moved} |->
                     IF q \in kept THEN f[q]
                     ELSE f[CHOOSE m \in moved : Moved(m) = q]]]

\* os.Create(path): O_RDWR|O_CREATE|O_TRUNC with 0o666; an existing file is
\* emptied and keeps its mode.
Create(f, path) ==
    LET p == Abs(path) IN
    IF IsDirAt(f, p) THEN [err |-> "EISDIR", fs |-> f]
    ELSE IF \E a \in Ancestors(p) : IsFileAt(f, a) THEN [err |-> "ENOTDIR", fs |-> f]
    ELSE IF ~IsDirAt(f, Dir(p)) THEN [err |-> "ENOENT", fs |-> f]
    ELSE [err |-> "",
          fs |-> [q \in DOMAIN f \cup {p} |->
                     IF q = p
                     THEN FileNode("", IF p \in DOMAIN f THEN f[p].mode ELSE CreatePerm, 0)
                     ELSE f[q]]]

(***************************************************************************)
(* The tar stream: a sequence of entries                                   *)
(***************************************************************************)

MetadataName == <<"metadata", ".", "json">>

\* One tar entry: header (Name, Mode, ModTime) and payload.  The payload of
\* the metadata entry is the JSON of the Archive, kept as its files list
\* (the relative paths, in order).
Entry(name, mode, mtime, data, files) ==
    [name |-> name, mode |-> mode, mtime |-> mtime, data |-> data, files |-> files]

(***************************************************************************)
(* The cryptographic envelope (types.Cryptor, internal/crypto)             *)
(***************************************************************************)

\* salt || nonce || ciphertext || tag, symbolically: the sealed plaintext
\* opens only under the key and nonce it was sealed with; a flipped byte of
\* the ciphertext or of the tag is remembered in flipCt and flipTag; size
\* tells a whole file from a cut one.
Blob(salt, nonce, plain, key) ==
    [salt |-> salt, nonce |-> nonce,
     sealed |-> [plain |-> plain, key |-> key, nonce |-> nonce],
     flipCt |-> FALSE, flipTag |-> FALSE, size |-> "full"]

\* PBKDF2(password, salt)
DeriveKey(password, salt) == [pw |-> password, salt |-> salt]

NoBlob == [Blob(0, 0, <<>>, DeriveKey("", 0)) EXCEPT !.size = "empty"]

Encrypt(plaintext, password, salt, nonce) ==
    IF password = ""
    THEN [err |-> "Empty", blob |-> NoBlob]
    ELSE [err |-> "", blob |-> Blob(salt, nonce, plaintext, DeriveKey(password, salt))]

Decrypt(blob, password) ==
    IF password = "" THEN [err |-> "Empty", plain |-> <<>>]
    ELSE IF blob.size = "empty" THEN [err |-> "TooShort", plain |-> <<>>]
    ELSE IF \/ blob.size # "full"
            \/ blob.flipCt
            \/ blob.flipTag
            \/ blob.sealed.key # DeriveKey(password, blob.salt)
            \/ blob.sealed.nonce # blob.nonce
         THEN [err |-> "Auth", plain |-> <<>>]
         ELSE [err |-> "", plain |-> blob.sealed.plain]

\* The file at the archive path (Pack's OutputPath, Unpack's ArchivePath)
NoFile == [exists |-> FALSE, mode |-> 0, blob |-> NoBlob]
ArchiveFileOf(mode, blob) == [exists |-> TRUE, mode |-> mode, blob |-> blob]

(***************************************************************************)
(* internal/archive/archive.go                                             *)
(***************************************************************************)

\* safePath with no check of the name or of the joined path
safePathUnchecked(name, baseDir) == [err |-> "", target |-> Join(baseDir, name)]

\* safePath: [err, target]
safePath(name, baseDir) ==
    IF IsAbs(name) \/ ContainsDotDot(name)
    THEN [err |-> "unsafe path detected", target |-> <<>>]
    ELSE LET target == Join(baseDir, name)
             absBase0 == Abs(baseDir)
             absTarget == Abs(target)
             absBase == IF ~HasSuffix(absBase0, <<Separator>>)
                        THEN absBase0 \o <<Separator>>
                        ELSE absBase0 IN
         IF ~HasPrefix(absTarget, absBase)
         THEN [err |-> "path traversal detected", target |-> <<>>]
         ELSE [err |-> "", target |-> target]

\* ensureDir: [err, fs]
ensureDir(f, path) == MkdirAll(f, Dir(path), DirPerm)

BackupSuffix == <<".", "backup">>

\* backupFile renaming to another suffix
backupFileWrongSuffix(f, path) == Rename(f, path, path \o <<".", "bak">>)

\* backupFile: [err, fs]
backupFile(f, path) == Rename(f, path, path \o BackupSuffix)

\* handleExisting looking at the backup flag before the overwrite flag
handleExistingBackupFirst(f, path, overwrite, backup) ==
    IF IsNotExist(StatErrno(f, path))
    THEN [skip |-> FALSE, err |-> "", fs |-> f, out |-> <<>>]
    ELSE IF backup
         THEN LET r == Rename(f, path, path \o BackupSuffix) IN
              IF r.err # ""
              THEN [skip |-> FALSE, err |-> "failed to create backup",
                    fs |-> f, out |-> <<>>]
              ELSE [skip |-> ~overwrite, err |-> "", fs |-> r.fs,
                    out |-> IF overwrite THEN <<>> ELSE <<path>>]
         ELSE [skip |-> ~overwrite, err |-> "", fs |-> f,
               out |-> IF overwrite THEN <<>> ELSE <<path>>]

\* handleExisting going on to the extraction when the backup rename fails
handleExistingIgnoringBackupError(f, path, overwrite, backup) ==
    IF IsNotExist(StatErrno(f, path))
    THEN [skip |-> FALSE, err |-> "", fs |-> f, out |-> <<>>]
    ELSE IF ~overwrite
         THEN [skip |-> TRUE, err |-> "", fs |-> f, out |-> <<path>>]
         ELSE IF backup
              THEN [skip |-> FALSE, err |-> "", fs |-> backupFile(f, path).fs,
                    out |-> <<>>]
              ELSE [skip |-> FALSE, err |-> "", fs |-> f, out |-> <<>>]

\* handleExisting: [skip, err, fs, out]; out is what it prints
handleExisting(f, path, overwrite, backup) ==
    IF IsNotExist(StatErrno(f, path))
    THEN [skip |-> FALSE, err |-> "", fs |-> f, out |-> <<>>]
    ELSE IF ~overwrite
         THEN [skip |-> TRUE, err |-> "", fs |-> f, out |-> <<path>>]
         ELSE IF backup
              THEN LET r == backupFile(f, path) IN
                   IF r.err # ""
                   THEN [skip |-> FALSE, err |-> "failed to create backup",
                         fs |-> f, out |-> <<>>]
                   ELSE [skip |-> FALSE, err |-> "", fs |-> r.fs, out |-> <<>>]
              ELSE [skip |-> FALSE, err |-> "", fs |-> f, out |-> <<>>]

\* safeMode without the owner-only mask
safeModeNoOwnerMask(headerMode) ==
    LET masked == BitAnd(headerMode, PermMask) IN
    IF masked = 0 THEN OwnerRW ELSE masked

\* The mode extractFile gives the file it has written
safeMode(headerMode) ==
    LET masked == BitAnd(BitAnd(headerMode, PermMask), OwnerRW) IN
    IF masked = 0 THEN OwnerRW ELSE masked

\* extractFile: [err, fs]
extractFile(f, targetPath, header) ==
    LET c == Create(f, targetPath)
        p == Abs(targetPath) IN
    IF c.err # ""
    THEN [err |-> "failed to create file", fs |-> f]
    ELSE [err |-> "",
          fs |-> [c.fs EXCEPT ![p] =
                     FileNode(header.data, safeMode(header.mode), header.mtime)]]

\* decryptArchive going on with the bytes it read when Decrypt fails
decryptArchiveIgnoringError(file, password) ==
    IF ~file.exists
    THEN [err |-> "failed to read archive", tarData |-> <<>>]
    ELSE [err |-> "", tarData |-> file.blob.sealed.plain]

\* decryptArchive: [err, tarData]
decryptArchive(file, password) ==
    IF ~file.exists
    THEN [err |-> "failed to read archive", tarData |-> <<>>]
    ELSE LET d == Decrypt(file.blob, password) IN
         IF d.err # ""
         THEN [err |-> "failed to decrypt archive", tarData |-> <<>>]
         ELSE [err |-> "", tarData |-> d.plain]

\* List reading the metadata whether or not Decrypt fails
ListIgnoringDecryptError(file, password) ==
    IF ~file.exists
    THEN [err |-> "failed to read archive", archive |-> <<>>]
    ELSE LET plain == file.blob.sealed.plain IN
         IF plain = <<>>
         THEN [err |-> "failed to read metadata", archive |-> <<>>]
         ELSE IF plain[1].name # MetadataName
              THEN [err |-> "invalid archive format", archive |-> <<>>]
              ELSE [err |-> "", archive |-> plain[1].files]

\* List taking the metadata from the first metadata.json entry of the
\* stream, wherever it sits
ListSearchingMetadata(file, password) ==
    IF ~file.exists
    THEN [err |-> "failed to read archive", archive |-> <<>>]
    ELSE LET d == Decrypt(file.blob, password)
             at == {i \in 1..Len(d.plain) : d.plain[i].name = MetadataName} IN
         IF d.err # ""
         THEN [err |-> "failed to decrypt archive", archive |-> <<>>]
         ELSE IF d.plain = <<>>
              THEN [err |-> "failed to read metadata", archive |-> <<>>]
              ELSE IF at = {}
                   THEN [err |-> "invalid archive format", archive |-> <<>>]
                   ELSE [err |-> "",
                         archive |-> d.plain[CHOOSE i \in at : \A j \in at : i <= j].files]

\* List: [err, archive]; archive is the files list of the metadata
List(file, password) ==
    IF ~file.exists
    THEN [err |-> "failed to read archive", archive |-> <<>>]
    ELSE LET d == Decrypt(file.blob, password) IN
         IF d.err # ""
         THEN [err |-> "failed to decrypt archive", archive |-> <<>>]
         ELSE IF d.plain = <<>>
              THEN [err |-> "failed to read metadata", archive |-> <<>>]
              ELSE IF d.plain[1].name # MetadataName
                   THEN [err |-> "invalid archive format", archive |-> <<>>]
                   ELSE [err |-> "", archive |-> d.plain[1].files]

\* writeMetadata listing the files last to first
writeMetadataReversed(files) ==
    Entry(MetadataName, OwnerRW, 0, "",
          [i \in 1..Len(files) |-> files[Len(files) + 1 - i].relativePath])

\* writeMetadata: the entry it writes
writeMetadata(files) ==
    Entry(MetadataName, OwnerRW, 0, "", [i \in 1..Len(files) |-> files[i].relativePath])

\* writeFileToTar: [err, entry]
writeFileToTar(f, file) ==
    LET p == Abs(file.path) IN
    IF StatErrno(f, file.path) # ""
    THEN [err |-> "failed to stat file", entry |-> Entry(<<>>, 0, 0, "", <<>>)]
    ELSE IF IsDirAt(f, p)
         THEN [err |-> "failed to write file", entry |-> Entry(<<>>, 0, 0, "", <<>>)]
         ELSE [err |-> "",
               entry |-> Entry(file.relativePath, f[p].mode, RoundSecond(f[p].mtime),
                               f[p].data, <<>>)]

(***************************************************************************)
(* State                                                                   *)
(***************************************************************************)

VARIABLES
    fs,           \* the filesystem outside the archive path
    archiveFile,  \* the file at the archive path
    stdout,       \* the paths of the "Skipping existing file" lines printed
    unpackPc,     \* where the Unpack call stands
    unpackOpts,   \* its types.UnpackOptions
    tarData,      \* the decrypted stream it reads
    tarIdx,       \* how many entries tarReader.Next has returned
    header,       \* the entry extractEntry works on
    targetPath,   \* safePath's result for it
    unpackErr,    \* what Unpack returns ("" is nil)
    fsAtCall,     \* history: the filesystem when Unpack was called
    written,      \* history: path |-> header mode of the entry extractFile
                  \* wrote there during this call
    listResult,   \* what the List call returned, once it was made
    packPc,       \* where the Pack call stands
    packOpts,     \* its types.PackOptions
    tmpFile,      \* the temporary file of os.CreateTemp
    tarWriter,    \* the entries written to the tar writer
    packIdx,      \* how many of opts.Files are written
    encryptedData,\* the result of Encrypt
    packErr,      \* what Pack returns ("" is nil)
    outputAtCall, \* history: the file at OutputPath when Pack was called
    tampered,     \* history: a byte of the archive file was flipped
    tree,         \* the files, directories and links ScanFiles walks over
    scanPc,       \* where the ScanFiles call stands
    scanOpts,     \* the types.ScanOptions the caller passed
    scanCtx,      \* its scanContext
    pending,      \* the paths filepath.Walk has still to visit, in order
    scanFiles,    \* the EnvFiles collected; what ScanFiles returns
    scanErr,      \* the error ScanFiles returns ("" is nil)
    visited,      \* history: the paths the walk function was called with
    packers,      \* the Pack calls that run at the same time, each with its
                  \* options, tar stream, ciphertext, file offset and error
    outputFile,   \* the file at the output path they share, in blocks
    goingenvDir,  \* the entries of the .goingenv directory: name |-> whether
                  \* it is a directory and when it was created
    cmdPc,        \* where the unpack command stands
    cmdOpts,      \* its UnpackOpts
    cmdArchive,   \* the archive path selectArchive returned
    filesToExtract, \* the files of the archive left by the filters
    conflicts,    \* the files checkFileConflicts found in the target
    cmdErr        \* the error the command returns ("" is nil)

unpackVars ==
    <<unpackPc, unpackOpts, tarData, tarIdx, header, targetPath, unpackErr,
      fsAtCall, written>>

packVars ==
    <<packPc, packOpts, tmpFile, tarWriter, packIdx, encryptedData, packErr,
      outputAtCall, tampered>>

scanVars == <<tree, scanPc, scanOpts, scanCtx, pending, scanFiles, scanErr, visited>>

archiveVars == <<fs, archiveFile, stdout, unpackVars, listResult, packVars>>

raceVars == <<packers, outputFile>>

cliVars == <<goingenvDir, cmdPc, cmdOpts, cmdArchive, filesToExtract, conflicts, cmdErr>>

vars == <<archiveVars, scanVars, raceVars, cliVars>>

NoEntry == Entry(<<>>, 0, 0, "", <<>>)
NoOpts == [password |-> "", targetDir |-> <<>>, overwrite |-> FALSE, backup |-> FALSE]
NoPackOpts == [files |-> <<>>, password |-> ""]
NoTmp == [exists |-> FALSE, mode |-> 0]
NoList == [called |-> FALSE, password |-> "", err |-> "", archive |-> <<>>]
EmptyMap == [q \in {} |-> 0]

(***************************************************************************)
(* Unpack                                                                  *)
(***************************************************************************)

Under(q, p) == q = p \/ HasPrefix(q, p \o <<Separator>>)

\* The history of written paths after a rename of o to n
WrittenAfterRename(w, o, n) ==
    LET kept == {k \in DOMAIN w : ~Under(k, o) /\ ~Under(k, n)}
        moved == {k \in DOMAIN w : Under(k, o)}
        To(k) == n \o SubSeq(k, Len(o) + 1, Len(k)) IN
    [q \in kept \cup {To(k) : k \in moved} |->
        IF q \in kept THEN w[q] ELSE w[CHOOSE k \in moved : To(k) = q]]

\* Service.Unpack, lines 247-257: read and decrypt, or return the error
UnpackCall(opts) ==
    /\ unpackPc = "idle"
    /\ packPc \in {"idle", "done"}
    /\ ~listResult.called \/ (packPc = "done" /\ listResult.password = opts.password)
    /\ LET Returned(d) ==
           /\ unpackOpts' = opts
           /\ fsAtCall' = fs
           /\ tarData' = d.tarData
           /\ unpackErr' = d.err
           /\ unpackPc' = IF d.err # "" THEN "done" ELSE "next"
       IN Returned(decryptArchive(archiveFile, opts.password))
    /\ UNCHANGED <<scanVars, raceVars, cliVars>>
    /\ UNCHANGED <<fs, archiveFile, stdout, tarIdx, header, targetPath, written,
                   listResult, packVars>>

\* Service.Unpack, lines 259-270 and 281: tarReader.Next
UnpackNext ==
    /\ unpackPc = "next"
    /\ IF tarIdx = Len(tarData)
       THEN /\ unpackPc' = "done"
            /\ UNCHANGED <<tarIdx, header>>
       ELSE /\ header' = tarData[tarIdx + 1]
            /\ tarIdx' = tarIdx + 1
            /\ unpackPc' = "extractEntry"
    /\ UNCHANGED <<scanVars, raceVars, cliVars>>
    /\ UNCHANGED <<fs, archiveFile, stdout, unpackOpts, tarData, targetPath,
                   unpackErr, fsAtCall, written, listResult, packVars>>

\* extractEntry creating the parent directory before it validates the name
ExtractEntryEnsureDirFirst ==
    /\ unpackPc = "extractEntry"
    /\ IF header.name = MetadataName
       THEN /\ unpackPc' = "next"
            /\ UNCHANGED <<targetPath, unpackErr, fs>>
       ELSE LET r == safePath(header.name, unpackOpts.targetDir) IN
            /\ fs' = ensureDir(fs, Join(unpackOpts.targetDir, header.name)).fs
            /\ targetPath' = r.target
            /\ unpackErr' = r.err
            /\ unpackPc' = IF r.err # "" THEN "done" ELSE "ensureDir"
    /\ UNCHANGED <<scanVars, raceVars, cliVars>>
    /\ UNCHANGED <<archiveFile, stdout, unpackOpts, tarData, tarIdx, header,
                   fsAtCall, written, listResult, packVars>>

\* extractEntry, lines 222-229: skip metadata, validate the name
ExtractEntryValidate ==
    /\ unpackPc = "extractEntry"
    /\ IF header.name = MetadataName
       THEN /\ unpackPc' = "next"
            /\ UNCHANGED <<targetPath, unpackErr>>
       ELSE LET r == safePath(header.name, unpackOpts.targetDir) IN
            /\ targetPath' = r.target
            /\ unpackErr' = r.err
            /\ unpackPc' = IF r.err # "" THEN "done" ELSE "ensureDir"
    /\ UNCHANGED <<scanVars, raceVars, cliVars>>
    /\ UNCHANGED <<fs, archiveFile, stdout, unpackOpts, tarData, tarIdx, header,
                   fsAtCall, written, listResult, packVars>>

\* extractEntry, lines 231-233
ExtractEntryEnsureDir ==
    /\ unpackPc = "ensureDir"
    /\ LET Returned(r) ==
           /\ fs' = r.fs
           /\ unpackErr' = IF r.err # "" THEN "failed to create directory" ELSE ""
           /\ unpackPc' = IF r.err # "" THEN "done" ELSE "handleExisting"
       IN Returned(ensureDir(fs, targetPath))
    /\ UNCHANGED <<scanVars, raceVars, cliVars>>
    /\ UNCHANGED <<archiveFile, stdout, unpackOpts, tarData, tarIdx, header,
                   targetPath, fsAtCall, written, listResult, packVars>>

\* extractEntry, lines 235-241
ExtractEntryHandleExisting ==
    /\ unpackPc = "handleExisting"
    /\ LET Returned(r) ==
           /\ fs' = r.fs
           /\ stdout' = stdout \o r.out
           /\ unpackErr' = r.err
           /\ unpackPc' = IF r.err # "" THEN "done"
                          ELSE IF r.skip THEN "next" ELSE "extractFile"
           /\ written' = IF r.fs # fs
                         THEN WrittenAfterRename(written, Abs(targetPath),
                                                 Abs(targetPath \o BackupSuffix))
                         ELSE written
       IN Returned(handleExisting(fs, targetPath, unpackOpts.overwrite, unpackOpts.backup))
    /\ UNCHANGED <<scanVars, raceVars, cliVars>>
    /\ UNCHANGED <<archiveFile, unpackOpts, tarData, tarIdx, header, targetPath,
                   fsAtCall, listResult, packVars>>

\* extractEntry, line 243
ExtractEntryExtractFile ==
    /\ unpackPc = "extractFile"
    /\ LET Returned(r) ==
           /\ fs' = r.fs
           /\ unpackErr' = r.err
           /\ unpackPc' = IF r.err # "" THEN "done" ELSE "next"
           /\ written' = IF r.err # "" THEN written
                         ELSE [q \in DOMAIN written \cup {Abs(targetPath)} |->
                                  IF q = Abs(targetPath) THEN header.mode ELSE written[q]]
       IN Returned(extractFile(fs, targetPath, header))
    /\ UNCHANGED <<scanVars, raceVars, cliVars>>
    /\ UNCHANGED <<archiveFile, stdout, unpackOpts, tarData, tarIdx, header,
                   targetPath, fsAtCall, listResult, packVars>>

(***************************************************************************)
(* List                                                                    *)
(***************************************************************************)

\* A List that leaves the metadata it read in a file of the working directory
ListCallKeepingMetadata(password) ==
    /\ unpackPc = "idle"
    /\ packPc \in {"idle", "done"}
    /\ ~listResult.called
    /\ LET Returned(r) ==
           listResult' = [called |-> TRUE, password |-> password, err |-> r.err,
                          archive |-> r.archive]
       IN Returned(List(archiveFile, password))
    /\ fs' = (Join(Getwd, MetadataName) :> FileNode("", OwnerRW, 0)) @@ fs
    /\ UNCHANGED <<scanVars, raceVars, cliVars>>
    /\ UNCHANGED <<archiveFile, stdout, unpackVars, packVars>>

ListCall(password) ==
    /\ unpackPc = "idle"
    /\ packPc \in {"idle", "done"}
    /\ ~listResult.called
    /\ LET Returned(r) ==
           listResult' = [called |-> TRUE, password |-> password, err |-> r.err,
                          archive |-> r.archive]
       IN Returned(List(archiveFile, password))
    /\ UNCHANGED <<scanVars, raceVars, cliVars>>
    /\ UNCHANGED <<fs, archiveFile, stdout, unpackVars, packVars>>

(***************************************************************************)
(* Unpack and List on hand-made archives                                   *)
(***************************************************************************)

\* Bounds of the hand-made streams
MaxEntries == 2

\* The password the hand-made archives are sealed with
Passwords == {"p", "q"}

TargetDir == <<"/", "t">>

EntryNames ==
    { <<"a">>,
      <<"a", "/", "b">>,
      <<"a", ".", "backup">>,
      <<".", ".", "/", "e">>,
      <<"/", "e">>,
      <<".">>,
      MetadataName }

\* The modes tried on the entry "a": 0, 0o444, 0o755; the others carry 0o644
EntryModes == {0, 292, 493}

CraftedHeaders ==
    {[name |-> n, mode |-> 420] : n \in EntryNames}
        \cup {[name |-> <<"a">>, mode |-> m] : m \in EntryModes}

PayloadAt(i) == IF i = 1 THEN "n1" ELSE IF i = 2 THEN "n2" ELSE "n3+"

\* The files list a hand-made metadata entry carries
FilesAt(name) == IF name = MetadataName THEN << <<"a">> >> ELSE <<>>

CraftedStreams ==
    UNION { { [i \in 1..n |->
                  Entry(h[i].name, h[i].mode, 7000, PayloadAt(i), FilesAt(h[i].name))] :
                h \in [1..n -> CraftedHeaders] } :
            n \in 0..MaxEntries }

BaseFs == (Root :> DirNode(DirPerm)) @@ (Getwd :> DirNode(DirPerm))
             @@ (TargetDir :> DirNode(DirPerm))

InTarget(name) == Join(TargetDir, name)

\* What the target directory holds before the call
TargetTrees ==
    { BaseFs,
      BaseFs @@ (InTarget(<<"a">>) :> FileNode("old", 420, 3000)),
      BaseFs @@ (InTarget(<<"a">>) :> FileNode("old", 420, 3000))
             @@ (InTarget(<<"a", ".", "backup">>) :> FileNode("oldbackup", 420, 2000)),
      BaseFs @@ (InTarget(<<"a">>) :> FileNode("old", 420, 3000))
             @@ (InTarget(<<"a", ".", "backup">>) :> DirNode(DirPerm)),
      BaseFs @@ (InTarget(<<"a">>) :> DirNode(DirPerm))
             @@ (InTarget(<<"a", "/", "b">>) :> FileNode("oldb", 420, 3000)) }

UnpackOptionsSet ==
    [password : Passwords, targetDir : {TargetDir}, overwrite : BOOLEAN, backup : BOOLEAN]

InitUnpackVars ==
    /\ unpackPc = "idle"
    /\ unpackOpts = NoOpts
    /\ tarData = <<>>
    /\ tarIdx = 0
    /\ header = NoEntry
    /\ targetPath = <<>>
    /\ unpackErr = ""
    /\ fsAtCall = BaseFs
    /\ written = EmptyMap
    /\ listResult = NoList
    /\ stdout = <<>>

InitPackVars ==
    /\ packPc = "idle"
    /\ packOpts = NoPackOpts
    /\ tmpFile = NoTmp
    /\ tarWriter = <<>>
    /\ packIdx = 0
    /\ encryptedData = NoBlob
    /\ packErr = ""
    /\ outputAtCall = NoFile
    /\ tampered = FALSE

NoScanOptions ==
    [rootPath |-> <<>>, maxDepth |-> 0, patterns |-> <<>>,
     envExcludePatterns |-> <<>>, excludePatterns |-> <<>>]

NoScanContext ==
    [root |-> <<>>, maxDepth |-> 0, maxFileSize |-> 0, include |-> <<>>,
     exclude |-> <<>>, envExclude |-> <<>>]

InitScanVars ==
    /\ scanPc = "idle"
    /\ scanOpts = NoScanOptions
    /\ scanCtx = NoScanContext
    /\ pending = <<>>
    /\ scanFiles = <<>>
    /\ scanErr = ""
    /\ visited = <<>>

NumPackers == 2
Packers == 1..NumPackers

NoPacker ==
    [pc |-> "idle", opts |-> NoPackOpts, encryptedData |-> NoBlob, offset |-> 0,
     err |-> ""]

NoOutput == [exists |-> FALSE, mode |-> 0, bytes |-> <<>>]

InitRaceVars ==
    /\ packers = [p \in Packers |-> NoPacker]
    /\ outputFile = NoOutput

NoUnpackOpts ==
    [archive |-> <<>>, target |-> <<>>, password |-> "", overwrite |-> FALSE,
     backup |-> FALSE, dryRun |-> FALSE, include |-> <<>>, exclude |-> <<>>]

InitCmdVars ==
    /\ cmdPc = "idle"
    /\ cmdOpts = NoUnpackOpts
    /\ cmdArchive = <<>>
    /\ filesToExtract = <<>>
    /\ conflicts = <<>>
    /\ cmdErr = ""

InitCliVars ==
    /\ goingenvDir = EmptyMap
    /\ InitCmdVars

InitCrafted ==
    /\ tree = EmptyMap
    /\ InitScanVars
    /\ fs \in TargetTrees
    /\ \E stream \in CraftedStreams :
          archiveFile = ArchiveFileOf(OwnerRW, Encrypt(stream, "p", 1, 1).blob)
    /\ InitUnpackVars
    /\ InitPackVars
    /\ InitRaceVars
    /\ InitCliVars

UnpackSteps ==
    \/ UnpackNext
    \/ ExtractEntryValidate
    \/ ExtractEntryEnsureDir
    \/ ExtractEntryHandleExisting
    \/ ExtractEntryExtractFile

NextCrafted ==
    \/ \E opts \in UnpackOptionsSet : UnpackCall(opts)
    \/ UnpackSteps
    \/ \E password \in Passwords : ListCall(password)

SpecCrafted == InitCrafted /\ [][NextCrafted]_vars

(***************************************************************************)
(* Pack                                                                    *)
(***************************************************************************)

\* The salt and the nonce Encrypt draws
Salt == 1
Nonce == 1

\* The deferred os.Remove(tmpFile.Name()) and Close of Pack
RemoveTmp == tmpFile' = NoTmp

\* Pack without the check of lines 31-37
PackCallNoEmptyCheck(opts) ==
    /\ packPc = "idle"
    /\ unpackPc = "idle"
    /\ ~listResult.called
    /\ packOpts' = opts
    /\ outputAtCall' = archiveFile
    /\ tmpFile' = [exists |-> TRUE, mode |-> OwnerRW]
    /\ packPc' = "writeMetadata"
    /\ UNCHANGED <<scanVars, raceVars, cliVars>>
    /\ UNCHANGED <<fs, archiveFile, stdout, unpackVars, listResult, tarWriter,
                   packIdx, encryptedData, tampered, packErr>>

\* Service.Pack, lines 30-78: reject an empty file list, else create the
\* temporary file, make it 0o600 and open the tar writer on it
PackCall(opts) ==
    /\ packPc = "idle"
    /\ unpackPc = "idle"
    /\ ~listResult.called
    /\ packOpts' = opts
    /\ outputAtCall' = archiveFile
    /\ IF Len(opts.files) = 0
       THEN /\ packErr' = "no files to pack"
            /\ packPc' = "done"
            /\ UNCHANGED tmpFile
       ELSE /\ tmpFile' = [exists |-> TRUE, mode |-> OwnerRW]
            /\ packPc' = "writeMetadata"
            /\ UNCHANGED packErr
    /\ UNCHANGED <<scanVars, raceVars, cliVars>>
    /\ UNCHANGED <<fs, archiveFile, stdout, unpackVars, listResult, tarWriter,
                   packIdx, encryptedData, tampered>>

\* Service.Pack, lines 80-87
PackWriteMetadata ==
    /\ packPc = "writeMetadata"
    /\ tarWriter' = <<writeMetadata(packOpts.files)>>
    /\ packPc' = "writeFiles"
    /\ UNCHANGED <<scanVars, raceVars, cliVars>>
    /\ UNCHANGED <<fs, archiveFile, stdout, unpackVars, listResult, packOpts,
                   tmpFile, packIdx, encryptedData, packErr, outputAtCall, tampered>>

\* Service.Pack, lines 90-98: one turn of the loop over opts.Files
PackWriteFile ==
    /\ packPc = "writeFiles"
    /\ packIdx < Len(packOpts.files)
    /\ LET Returned(r) ==
           IF r.err # ""
           THEN /\ packErr' = "failed to write file to archive"
                /\ packPc' = "done"
                /\ RemoveTmp
                /\ UNCHANGED <<tarWriter, packIdx>>
           ELSE /\ tarWriter' = Append(tarWriter, r.entry)
                /\ packIdx' = packIdx + 1
                /\ UNCHANGED <<packErr, packPc, tmpFile>>
       IN Returned(writeFileToTar(fs, packOpts.files[packIdx + 1]))
    /\ UNCHANGED <<scanVars, raceVars, cliVars>>
    /\ UNCHANGED <<fs, archiveFile, stdout, unpackVars, listResult, packOpts,
                   encryptedData, outputAtCall, tampered>>

\* Service.Pack, lines 100-135: close the tar writer, read the temporary
\* file back and encrypt it
PackEncrypt ==
    /\ packPc = "writeFiles"
    /\ packIdx = Len(packOpts.files)
    /\ LET Returned(r) ==
           IF r.err # ""
           THEN /\ packErr' = "failed to encrypt data"
                /\ packPc' = "done"
                /\ RemoveTmp
                /\ UNCHANGED encryptedData
           ELSE /\ encryptedData' = r.blob
                /\ packPc' = "openOutput"
                /\ UNCHANGED <<packErr, tmpFile>>
       IN Returned(Encrypt(tarWriter, packOpts.password, Salt, Nonce))
    /\ UNCHANGED <<scanVars, raceVars, cliVars>>
    /\ UNCHANGED <<fs, archiveFile, stdout, unpackVars, listResult, packOpts,
                   tarWriter, packIdx, outputAtCall, tampered>>

\* os.WriteFile's OpenFile(name, O_WRONLY|O_CREATE|O_TRUNC, perm): a new file
\* gets perm, an existing one is emptied and keeps its mode
OpenTrunc(file, perm) ==
    IF file.exists THEN [file EXCEPT !.blob = NoBlob]
    ELSE ArchiveFileOf(perm, NoBlob)

\* Service.Pack, line 138: os.WriteFile opens the output file
PackOpenOutput ==
    /\ packPc = "openOutput"
    /\ archiveFile' = OpenTrunc(archiveFile, OwnerRW)
    /\ packPc' = "writeOutput"
    /\ UNCHANGED <<scanVars, raceVars, cliVars>>
    /\ UNCHANGED <<fs, stdout, unpackVars, listResult, packOpts, tmpFile,
                   tarWriter, packIdx, encryptedData, packErr, outputAtCall, tampered>>

\* Service.Pack, lines 138-146: os.WriteFile writes the ciphertext and
\* closes; the write either completes or fails part way (a full disk, an
\* I/O error), and Pack returns what WriteFile returned
PackWriteOutput ==
    /\ packPc = "writeOutput"
    /\ \E completes \in BOOLEAN :
          /\ archiveFile' =
                [archiveFile EXCEPT !.blob =
                    IF completes THEN encryptedData
                    ELSE [encryptedData EXCEPT !.size = "partial"]]
          /\ packErr' = IF completes THEN "" ELSE "failed to write encrypted file"
    /\ packPc' = "done"
    /\ RemoveTmp
    /\ UNCHANGED <<scanVars, raceVars, cliVars>>
    /\ UNCHANGED <<fs, stdout, unpackVars, listResult, packOpts, tarWriter,
                   packIdx, encryptedData, outputAtCall, tampered>>

(***************************************************************************)
(* A byte of the archive file flipped by someone else                      *)
(***************************************************************************)

Regions == {"salt", "nonce", "ciphertext", "tag"}

FlipByte(blob, region) ==
    IF region = "salt" THEN [blob EXCEPT !.salt = blob.salt + 1]
    ELSE IF region = "nonce" THEN [blob EXCEPT !.nonce = blob.nonce + 1]
    ELSE IF region = "ciphertext" THEN [blob EXCEPT !.flipCt = TRUE]
    ELSE [blob EXCEPT !.flipTag = TRUE]

Tamper(region) ==
    /\ packPc = "done"
    /\ unpackPc = "idle"
    /\ ~listResult.called
    /\ ~tampered
    /\ archiveFile.exists
    /\ archiveFile.blob.size = "full"
    /\ archiveFile' = [archiveFile EXCEPT !.blob = FlipByte(archiveFile.blob, region)]
    /\ tampered' = TRUE
    /\ UNCHANGED <<scanVars, raceVars, cliVars>>
    /\ UNCHANGED <<fs, stdout, unpackVars, listResult, packPc, packOpts, tmpFile,
                   tarWriter, packIdx, encryptedData, packErr, outputAtCall>>

(***************************************************************************)
(* Pack, then List and Unpack of what it wrote                             *)
(***************************************************************************)

\* Bound of opts.Files
MaxFiles == 2

SourceDir == <<"/", "s">>
InSource(name) == Join(SourceDir, name)

EnvFile(relativePath) == [path |-> InSource(relativePath), relativePath |-> relativePath]

\* The scanned files: a (modified at 1.5 s), x/b (at 2 s), .env..bak (at 4 s);
\* gone was scanned and removed since
SourceNames == { <<"a">>, <<"x", "/", "b">>, <<".", "env", ".", ".", "bak">>, <<"gone">> }

SourceFs ==
    (Root :> DirNode(DirPerm)) @@ (Getwd :> DirNode(DirPerm))
        @@ (SourceDir :> DirNode(DirPerm))
        @@ (InSource(<<"a">>) :> FileNode("A", 420, 1500))
        @@ (InSource(<<"x">>) :> DirNode(DirPerm))
        @@ (InSource(<<"x", "/", "b">>) :> FileNode("B", 384, 2000))
        @@ (InSource(<<".", "env", ".", ".", "bak">>) :> FileNode("C", 420, 4000))

FileLists ==
    UNION { [1..n -> {EnvFile(r) : r \in SourceNames}] : n \in 0..MaxFiles }

PackOptionsSet == [files : FileLists, password : {"p", ""}]

\* An archive of an earlier run, left with mode 0o644
OldArchive == ArchiveFileOf(420, Encrypt(<<writeMetadata(<<>>)>>, "p", 0, 0).blob)

Init ==
    /\ tree = EmptyMap
    /\ InitScanVars
    /\ fs \in {SourceFs, SourceFs @@ (TargetDir :> DirNode(DirPerm))}
    /\ archiveFile \in {NoFile, OldArchive}
    /\ InitUnpackVars
    /\ InitPackVars
    /\ InitRaceVars
    /\ InitCliVars

PackSteps ==
    \/ PackWriteMetadata
    \/ PackWriteFile
    \/ PackEncrypt
    \/ PackOpenOutput
    \/ PackWriteOutput

Next ==
    \/ \E opts \in PackOptionsSet : PackCall(opts)
    \/ PackSteps
    \/ \E region \in Regions : Tamper(region)
    \/ \E password \in Passwords : ListCall(password)
    \/ \E opts \in UnpackOptionsSet : UnpackCall(opts)
    \/ UnpackSteps

Spec == Init /\ [][Next]_vars

(***************************************************************************)
(* The scanner (internal/scanner)                                          *)
(***************************************************************************)

\* A regular expression of the scans: a literal, with or without a trailing
\* ".*", or one that does not compile.  The tokens of the literals are
\* whole tokens of the names they are matched against, so that a match of
\* token sequences is a match of the strings.
Pattern(literal) == [literal |-> literal, valid |-> TRUE]
BadPattern == [literal |-> <<"[">>, valid |-> FALSE]

\* strings.Contains
Contains(s, substr) ==
    \E i \in 0..(Len(s) - Len(substr)) : SubSeq(s, i + 1, i + Len(substr)) = substr

\* Regexp.MatchString: the pattern matches somewhere in s
MatchString(p, s) == Contains(s, p.literal)

matchesAny(name, patterns) ==
    \E i \in 1..Len(patterns) : MatchString(patterns[i], name)

\* strings.Count(s, sep)
Count(s, sep) == Cardinality({i \in 1..Len(s) : s[i] = sep})

exceedsDepth(relPath, maxDepth) == Count(relPath, Separator) > maxDepth

\* shouldSkipDir matching the path as it is, with no trailing separator
shouldSkipDirNoSeparator(sc, path) == matchesAny(path, sc.exclude)

shouldSkipDir(sc, path) == matchesAny(path \o <<Separator>>, sc.exclude)

shouldInclude(sc, name, size) ==
    /\ size <= sc.maxFileSize
    /\ matchesAny(name, sc.include)
    /\ ~matchesAny(name, sc.envExclude)

applyDefaults(opts, cfg) ==
    [rootPath |-> IF opts.rootPath = <<>> THEN <<".">> ELSE opts.rootPath,
     maxDepth |-> IF opts.maxDepth = 0 THEN cfg.defaultDepth ELSE opts.maxDepth,
     patterns |-> IF Len(opts.patterns) = 0 THEN cfg.envPatterns ELSE opts.patterns,
     envExcludePatterns |->
        IF Len(opts.envExcludePatterns) = 0 THEN cfg.envExcludePatterns
        ELSE opts.envExcludePatterns,
     excludePatterns |->
        IF Len(opts.excludePatterns) = 0 THEN cfg.excludePatterns
        ELSE opts.excludePatterns]

\* compilePatterns: the error of the first pattern that does not compile
\* compilePatterns leaving out the patterns that do not compile
compilePatternsSkippingInvalid(patterns) == ""

compilePatterns(patterns) ==
    IF \E i \in 1..Len(patterns) : ~patterns[i].valid THEN "invalid pattern" ELSE ""

\* newScanContext: [err, sc]
newScanContext(opts, cfg) ==
    IF compilePatterns(opts.patterns) # ""
    THEN [err |-> "failed to compile env patterns", sc |-> NoScanContext]
    ELSE IF compilePatterns(opts.excludePatterns) # ""
         THEN [err |-> "failed to compile exclude patterns", sc |-> NoScanContext]
         ELSE IF compilePatterns(opts.envExcludePatterns) # ""
              THEN [err |-> "failed to compile env exclude patterns",
                    sc |-> NoScanContext]
              ELSE [err |-> "",
                    sc |-> [root |-> opts.rootPath, maxDepth |-> opts.maxDepth,
                            maxFileSize |-> cfg.maxFileSize,
                            include |-> opts.patterns,
                            exclude |-> opts.excludePatterns,
                            envExclude |-> opts.envExcludePatterns]]

\* filepath.Base of a cleaned path
Base(path) ==
    IF path = Root THEN Root ELSE SubSeq(path, LastSep(path) + 1, Len(path))

\* filepath.Rel(basepath, targpath) for a target at or below the base
Rel(basepath, targpath) ==
    LET b == Clean(basepath)
        t == Clean(targpath)
        prefix == IF b = Root THEN b ELSE b \o <<Separator>> IN
    IF b = t THEN [err |-> "", rel |-> <<".">>]
    ELSE IF b = <<".">> /\ ~IsAbs(t) THEN [err |-> "", rel |-> t]
         ELSE IF HasPrefix(t, prefix)
              THEN [err |-> "", rel |-> SubSeq(t, Len(prefix) + 1, Len(t))]
              ELSE [err |-> "Rel: can't make relative", rel |-> <<>>]

\* What the walk is over: the absolute path of every directory, regular
\* file and symbolic link
\* access: "ok", "noread" (no read permission) or "nosearch" (a directory
\* without search permission, whose entries cannot be stat'ed)
DirEntry == [kind |-> "dir", size |-> 0, data |-> "", target |-> <<>>, access |-> "ok"]
RegularFile(data, size) ==
    [kind |-> "file", size |-> size, data |-> data, target |-> <<>>, access |-> "ok"]
Symlink(target) ==
    [kind |-> "symlink", size |-> Len(target), data |-> "", target |-> target,
     access |-> "ok"]
Denied(node, access) == [node EXCEPT !.access = access]

\* os.Lstat: the entry itself, a link not followed
Lstat(t, path) == t[Abs(path)]

\* The error of os.Lstat: the directory of the path cannot be searched
LstatErrno(t, path) ==
    LET At(p) == IF p \notin DOMAIN t THEN "ENOENT"
                 ELSE IF p # Root /\ t[Dir(p)].access = "nosearch" THEN "EACCES"
                      ELSE "" IN
    At(Abs(path))

\* The error of readDirNames: the directory cannot be read
ReadDirErrno(t, path) ==
    LET Of(dir) == IF dir.kind = "dir" /\ dir.access = "noread" THEN "EACCES" ELSE "" IN
    Of(t[Abs(path)])

\* What os.Open and the reads of io.Copy meet at path, links followed
OpenErrno(t, path) ==
    LET Followed(p) ==
            IF p \in DOMAIN t /\ t[p].kind = "symlink"
            THEN Clean(IF IsAbs(t[p].target) THEN t[p].target
                       ELSE Dir(p) \o <<Separator>> \o t[p].target)
            ELSE p
        At(q) == IF q \notin DOMAIN t THEN "ENOENT"
                 ELSE IF t[q].kind = "dir" THEN "EISDIR"
                      ELSE IF t[q].kind = "symlink" THEN "ELOOP"
                           ELSE IF t[q].access # "ok" THEN "EACCES"
                                ELSE "" IN
    At(Followed(Abs(path)))

\* The file whose bytes a read of path returns
OpenedPath(t, path) ==
    LET Followed(p) ==
            IF t[p].kind = "symlink"
            THEN Clean(IF IsAbs(t[p].target) THEN t[p].target
                       ELSE Dir(p) \o <<Separator>> \o t[p].target)
            ELSE p IN
    Followed(Abs(path))

\* calculateChecksum: [err, checksum]; the digest stands as its input
calculateChecksum(t, filePath) ==
    LET Sum(errno) ==
            IF errno # "" THEN [err |-> errno, checksum |-> <<>>]
            ELSE [err |-> "", checksum |-> <<"sha256", t[OpenedPath(t, filePath)].data>>] IN
    Sum(OpenErrno(t, filePath))

\* The base names of the trees, in the order of sort.Strings
NameOrder ==
    << <<".", "env">>, <<".", "env", ".", "d">>, <<".", "env", ".", "example">>,
       <<".", "env", ".", "local">>, <<".", "env", ".", "real">>,
       <<"a">>, <<"a", ".", "enc">>, <<"b">>, <<"b", ".", "enc">>, <<"c">>,
       <<"c", ".", "txt">>, <<"config">>, <<"d">>, <<"d", ".", "enc">>, <<"e">>, <<"f">>,
       <<"node_modules">>, <<"p">>, <<"r">>, <<"readme">>, <<"real_config">>,
       <<"vendor">>, <<"w">> >>

NameRank(name) == CHOOSE i \in 1..Len(NameOrder) : NameOrder[i] = name

RECURSIVE SortNames(_)
SortNames(names) ==
    IF names = {} THEN <<>>
    ELSE LET first == CHOOSE n \in names : \A m \in names : NameRank(n) <= NameRank(m) IN
         <<first>> \o SortNames(names \ {first})

\* readDirNames of filepath.Walk: the names in the directory, sorted
readDirNames(t, path) ==
    SortNames({Base(q) : q \in {c \in DOMAIN t : c # Abs(path) /\ Dir(c) = Abs(path)}})

NoEnvFile == <<>>

\* The function ScanFiles hands to filepath.Walk, lines 127-171:
\* [ret, err, file]; file is what it appends to files
walkFn(sc, t, path, walkErr) ==
    LET Visit(info, r, sum) ==
            IF walkErr # "" THEN [ret |-> "error", err |-> walkErr, file |-> NoEnvFile]
            ELSE IF r.err # "" THEN [ret |-> "error", err |-> r.err, file |-> NoEnvFile]
            ELSE IF exceedsDepth(r.rel, sc.maxDepth)
                 THEN [ret |-> IF info.kind = "dir" THEN "SkipDir" ELSE "nil", err |-> "",
                       file |-> NoEnvFile]
                 ELSE IF info.kind = "dir"
                      THEN [ret |-> IF shouldSkipDir(sc, path) THEN "SkipDir" ELSE "nil",
                            err |-> "", file |-> NoEnvFile]
                      ELSE IF ~shouldInclude(sc, Base(Abs(path)), info.size)
                           THEN [ret |-> "nil", err |-> "", file |-> NoEnvFile]
                           ELSE IF sum.err # ""
                                THEN [ret |-> "error", err |-> "failed to calculate checksum",
                                      file |-> NoEnvFile]
                                ELSE [ret |-> "nil", err |-> "",
                                      file |-> << [path |-> path, relativePath |-> r.rel,
                                                   size |-> info.size,
                                                   checksum |-> sum.checksum] >>] IN
    Visit(Lstat(t, path), Rel(sc.root, path), calculateChecksum(t, path))

\* The types.Config of the service
EnvPattern == Pattern(<<".", "env">>)
ExamplePattern == Pattern(<<".", "env", ".", "example">>)
NodeModulesPattern == Pattern(<<"node_modules", "/">>)

Config ==
    [defaultDepth |-> 3, maxFileSize |-> 10,
     envPatterns |-> <<EnvPattern>>,
     envExcludePatterns |-> <<ExamplePattern>>,
     excludePatterns |-> <<NodeModulesPattern>>]

\* ScanFiles, lines 118-127: the defaults, the scan context, and the start
\* of filepath.Walk at the root
ScanCall(opts) ==
    /\ scanPc = "idle"
    /\ scanOpts' = opts
    /\ LET Returned(c) ==
           /\ scanCtx' = c.sc
           /\ scanErr' = c.err
           /\ scanPc' = IF c.err # "" THEN "done" ELSE "walk"
           /\ pending' = IF c.err # "" THEN <<>> ELSE <<c.sc.root>>
       IN Returned(newScanContext(applyDefaults(opts, Config), Config))
    /\ UNCHANGED <<tree, scanFiles, visited>>
    /\ UNCHANGED <<archiveVars, raceVars, cliVars>>

\* WalkFn with ScanFiles returning the files collected so far with the error
WalkFnKeepingPartial ==
    /\ scanPc = "walk"
    /\ LET path == Head(pending)
           WalkErr(lstatErr) == IF lstatErr # "" THEN lstatErr
                                ELSE ReadDirErrno(tree, path)
           Children(names) == [i \in 1..Len(names) |-> Join(path, names[i])]
           Below(r) == IF Lstat(tree, path).kind = "dir" /\ r.ret = "nil"
                       THEN Children(readDirNames(tree, path))
                       ELSE <<>>
           Walk(r, rest) ==
               /\ visited' = Append(visited, path)
               /\ IF r.ret = "error"
                  THEN /\ scanErr' = r.err
                       /\ scanFiles' = scanFiles
                       /\ pending' = <<>>
                       /\ scanPc' = "done"
                  ELSE /\ scanFiles' = scanFiles \o r.file
                       /\ pending' = rest
                       /\ scanPc' = IF rest = <<>> THEN "done" ELSE "walk"
                       /\ UNCHANGED scanErr
           Called(r) == Walk(r, Below(r) \o Tail(pending)) IN
       Called(walkFn(scanCtx, tree, path, WalkErr(LstatErrno(tree, path))))
    /\ UNCHANGED <<tree, scanOpts, scanCtx>>
    /\ UNCHANGED <<archiveVars, raceVars, cliVars>>

\* One call of the walk function by filepath.Walk, lines 127-171, and what
\* Walk does with its result: go down into the directory, skip it, or
\* stop; ScanFiles returns (lines 173-177) when nothing is left to visit.
WalkFn ==
    /\ scanPc = "walk"
    /\ LET path == Head(pending)
           WalkErr(lstatErr) == IF lstatErr # "" THEN lstatErr
                                ELSE ReadDirErrno(tree, path)
           Children(names) == [i \in 1..Len(names) |-> Join(path, names[i])]
           Below(r) == IF Lstat(tree, path).kind = "dir" /\ r.ret = "nil"
                       THEN Children(readDirNames(tree, path))
                       ELSE <<>>
           Walk(r, rest) ==
               /\ visited' = Append(visited, path)
               /\ IF r.ret = "error"
                  THEN /\ scanErr' = r.err
                       /\ scanFiles' = <<>>
                       /\ pending' = <<>>
                       /\ scanPc' = "done"
                  ELSE /\ scanFiles' = scanFiles \o r.file
                       /\ pending' = rest
                       /\ scanPc' = IF rest = <<>> THEN "done" ELSE "walk"
                       /\ UNCHANGED scanErr
           Called(r) == Walk(r, Below(r) \o Tail(pending)) IN
       Called(walkFn(scanCtx, tree, path, WalkErr(LstatErrno(tree, path))))
    /\ UNCHANGED <<tree, scanOpts, scanCtx>>
    /\ UNCHANGED <<archiveVars, raceVars, cliVars>>

(***************************************************************************)
(* Scans of small trees                                                    *)
(***************************************************************************)

\* Bound of the trees: the depth of the deepest .env file
MaxTreeDepth == 4

DirNames == <<"a", "b", "c", "d", "e", "f">>

DotEnv == <<".", "env">>

\* a/b/c/... k levels down, relative to the root
RECURSIVE ChainDir(_)
ChainDir(k) ==
    IF k = 0 THEN <<>>
    ELSE IF k = 1 THEN <<DirNames[1]>>
         ELSE ChainDir(k - 1) \o <<Separator, DirNames[k]>>

\* What a tree holds, by path relative to the root: .env, a/.env, a/b/.env
\* and so on down to the bound
DepthChain ==
    [q \in {ChainDir(k) : k \in 1..MaxTreeDepth} |-> DirEntry]
        @@ [q \in {Join(ChainDir(k), DotEnv) : k \in 0..MaxTreeDepth} |->
               RegularFile("E", 1)]

\* Excluded names and directories, a file over the size limit, a name that
\* is no environment file
ExcludeTree ==
    (DotEnv :> RegularFile("E", 1))
        @@ (<<".", "env", ".", "example">> :> RegularFile("X", 1))
        @@ (<<".", "env", ".", "local">> :> RegularFile("L", 11))
        @@ (<<"readme">> :> RegularFile("R", 1))
        @@ (<<"node_modules">> :> DirEntry)
        @@ (<<"node_modules", "/", ".", "env">> :> RegularFile("N", 1))
        @@ (<<"a">> :> DirEntry)
        @@ (<<"a", "/", ".", "env">> :> RegularFile("A", 1))
        @@ (<<"a", "/", "node_modules">> :> DirEntry)
        @@ (<<"a", "/", "node_modules", "/", ".", "env">> :> RegularFile("M", 1))

\* .env is a link to the file .env.real
LinkToFile ==
    (<<".", "env", ".", "real">> :> RegularFile("REAL", 1))
        @@ (DotEnv :> Symlink(<<".", "env", ".", "real">>))

\* config is a link to the directory real_config
LinkToDir ==
    (<<"real_config">> :> DirEntry)
        @@ (<<"real_config", "/", ".", "env">> :> RegularFile("C", 1))
        @@ (<<"config">> :> Symlink(<<"real_config">>))

\* .env.d is a link to the directory real_config
MatchingLinkToDir ==
    (<<"real_config">> :> DirEntry)
        @@ (<<"real_config", "/", ".", "env">> :> RegularFile("C", 1))
        @@ (<<".", "env", ".", "d">> :> Symlink(<<"real_config">>))

\* .env, and a directory a that cannot be read, that cannot be searched,
\* or that holds a file that cannot be read
SubDir == <<"a">>
SubDirEnv == <<"a", "/", ".", "env">>

UnreadableDir ==
    (DotEnv :> RegularFile("E", 1)) @@ (SubDir :> Denied(DirEntry, "noread"))
        @@ (SubDirEnv :> RegularFile("A", 1))

UnsearchableDir ==
    (DotEnv :> RegularFile("E", 1)) @@ (SubDir :> Denied(DirEntry, "nosearch"))
        @@ (SubDirEnv :> RegularFile("A", 1))

UnreadableFile ==
    (DotEnv :> RegularFile("E", 1)) @@ (SubDir :> DirEntry)
        @@ (SubDirEnv :> Denied(RegularFile("A", 1), "noread"))

TreeContents ==
    {DepthChain, ExcludeTree, LinkToFile, LinkToDir, MatchingLinkToDir,
     UnreadableDir, UnsearchableDir, UnreadableFile}

\* Where the caller has the scan start
ScanRoots == { <<".">>, <<"/", "r">>, <<"/", "node_modules", "/", "p">> }

RootDirs ==
    [q \in {Root, Getwd, <<"/", "r">>, <<"/", "node_modules">>,
            <<"/", "node_modules", "/", "p">>} |-> DirEntry]

\* The content, under one root
Placed(content, root) ==
    [q \in {Join(Abs(root), rel) : rel \in DOMAIN content} |->
        content[CHOOSE rel \in DOMAIN content : Join(Abs(root), rel) = q]]

\* The content under every root
RECURSIVE PlacedAt(_, _)
PlacedAt(content, roots) ==
    IF roots = {} THEN RootDirs
    ELSE LET root == CHOOSE x \in roots : TRUE IN
         Placed(content, root) @@ PlacedAt(content, roots \ {root})

ScanOptionsSet ==
    [rootPath : ScanRoots,
     maxDepth : 0..MaxTreeDepth,
     patterns : {<<>>, <<EnvPattern>>, <<BadPattern>>},
     envExcludePatterns : {<<>>, <<ExamplePattern>>, <<ExamplePattern, BadPattern>>},
     excludePatterns : {<<>>, <<NodeModulesPattern>>, <<NodeModulesPattern, BadPattern>>}]

InitScan ==
    /\ tree \in {PlacedAt(content, ScanRoots) : content \in TreeContents}
    /\ InitScanVars
    /\ fs = BaseFs
    /\ archiveFile = NoFile
    /\ InitUnpackVars
    /\ InitPackVars
    /\ InitRaceVars
    /\ InitCliVars

NextScan ==
    \/ \E opts \in ScanOptionsSet : ScanCall(opts)
    \/ WalkFn

SpecScan == InitScan /\ [][NextScan]_vars

(***************************************************************************)
(* Pack calls running at the same time on one output path                  *)
(***************************************************************************)

\* The tar stream Pack writes to its temporary file, lines 81-98: the
\* metadata entry, then one entry per file, or the first error
RECURSIVE writeFiles(_, _, _)
writeFiles(f, files, i) ==
    IF i > Len(files) THEN [err |-> "", entries |-> <<>>]
    ELSE LET r == writeFileToTar(f, files[i])
             rest == writeFiles(f, files, i + 1) IN
         IF r.err # "" THEN [err |-> "failed to write file to archive", entries |-> <<>>]
         ELSE IF rest.err # "" THEN rest
              ELSE [err |-> "", entries |-> <<r.entry>> \o rest.entries]

\* The bytes of a ciphertext, in blocks: salt and nonce, one block per tar
\* entry, the tag
Bytes(blob) == [i \in 1..(Len(blob.sealed.plain) + 2) |-> [blob |-> blob, at |-> i]]

\* A block of zero bytes, read from a hole below a write past the end
Hole == [blob |-> NoBlob, at |-> 0]

\* write(2) of data at an offset of a file
WriteAt(bytes, offset, data) ==
    LET end == offset + Len(data)
        size == IF Len(bytes) > end THEN Len(bytes) ELSE end IN
    [i \in 1..size |->
        IF i > offset /\ i <= end THEN data[i - offset]
        ELSE IF i <= Len(bytes) THEN bytes[i] ELSE Hole]

\* Pack up to the temporary file it owns, lines 30-78
PackerCall(p, opts) ==
    /\ packers[p].pc = "idle"
    /\ packers' =
          [packers EXCEPT ![p] =
              IF Len(opts.files) = 0
              THEN [@ EXCEPT !.opts = opts, !.err = "no files to pack", !.pc = "done"]
              ELSE [@ EXCEPT !.opts = opts, !.pc = "writeTar"]]
    /\ UNCHANGED <<outputFile, archiveVars, scanVars, cliVars>>

\* Pack from the tar writer to the ciphertext, lines 81-135; the salt and
\* nonce of a call are its own
PackerEncrypt(p) ==
    /\ packers[p].pc = "writeTar"
    /\ LET opts == packers[p].opts
           w == writeFiles(fs, opts.files, 1)
           r == Encrypt(<<writeMetadata(opts.files)>> \o w.entries, opts.password,
                        Salt + p, Nonce + p) IN
       packers' =
          [packers EXCEPT ![p] =
              IF w.err # "" THEN [@ EXCEPT !.err = w.err, !.pc = "done"]
              ELSE IF r.err # ""
                   THEN [@ EXCEPT !.err = "failed to encrypt data", !.pc = "done"]
                   ELSE [@ EXCEPT !.encryptedData = r.blob, !.pc = "openOutput"]]
    /\ UNCHANGED <<outputFile, archiveVars, scanVars, cliVars>>

\* os.WriteFile, line 138: open with O_WRONLY|O_CREATE|O_TRUNC
PackerOpenOutput(p) ==
    /\ packers[p].pc = "openOutput"
    /\ outputFile' =
          IF outputFile.exists THEN [outputFile EXCEPT !.bytes = <<>>]
          ELSE [exists |-> TRUE, mode |-> OwnerRW, bytes |-> <<>>]
    /\ packers' = [packers EXCEPT ![p] = [@ EXCEPT !.offset = 0, !.pc = "writeOutput"]]
    /\ UNCHANGED <<archiveVars, scanVars, cliVars>>

\* os.WriteFile, line 138: one write(2) of the loop of File.Write, which
\* writes some of the remaining bytes at the offset of this descriptor;
\* after the last one the file is closed and Pack returns nil
PackerWriteOutput(p) ==
    /\ packers[p].pc = "writeOutput"
    /\ LET data == Bytes(packers[p].encryptedData)
           offset == packers[p].offset IN
       \E n \in 1..(Len(data) - offset) :
          /\ outputFile' =
                [outputFile EXCEPT
                    !.bytes = WriteAt(@, offset, SubSeq(data, offset + 1, offset + n))]
          /\ packers' =
                [packers EXCEPT ![p] =
                    [@ EXCEPT !.offset = offset + n,
                              !.pc = IF offset + n = Len(data) THEN "done"
                                     ELSE "writeOutput"]]
    /\ UNCHANGED <<archiveVars, scanVars, cliVars>>

\* The file lists of the calls: none, one file, two files, a missing file
RaceFileLists ==
    { <<>>,
      <<EnvFile(<<"a">>)>>,
      <<EnvFile(<<"a">>), EnvFile(<<"x", "/", "b">>)>>,
      <<EnvFile(<<"gone">>)>> }

RaceOptionsSet == [files : RaceFileLists, password : {"p", ""}]

\* An archive at the output path before the calls
OldOutput == [exists |-> TRUE, mode |-> OwnerRW, bytes |-> <<Hole>>]

InitRace ==
    /\ tree = EmptyMap
    /\ InitScanVars
    /\ fs = SourceFs
    /\ archiveFile = NoFile
    /\ InitUnpackVars
    /\ InitPackVars
    /\ packers = [p \in Packers |-> NoPacker]
    /\ outputFile \in {NoOutput, OldOutput}
    /\ InitCliVars

NextRace ==
    \/ \E p \in Packers : \E opts \in RaceOptionsSet : PackerCall(p, opts)
    \/ \E p \in Packers : PackerEncrypt(p)
    \/ \E p \in Packers : PackerOpenOutput(p)
    \/ \E p \in Packers : PackerWriteOutput(p)

SpecRace == InitRace /\ [][NextRace]_vars

(***************************************************************************)
(* The unpack command                                                      *)
(***************************************************************************)

\* config.GetGoingEnvDir
GoingEnvDir == <<".", "goingenv">>

ArchiveExtension == <<".", "enc">>

\* filepath.Match for patterns of literal runs and "*": a star matches any
\* run of characters without a separator, and the whole name must match
RECURSIVE Match(_, _)
Match(pattern, name) ==
    IF pattern = <<>> THEN name = <<>>
    ELSE IF Head(pattern) = "*"
         THEN \E k \in 0..Len(name) :
                 /\ \A i \in 1..k : name[i] # Separator
                 /\ Match(Tail(pattern), SubSeq(name, k + 1, Len(name)))
         ELSE /\ name # <<>>
              /\ Head(name) = Head(pattern)
              /\ Match(Tail(pattern), Tail(name))

matchesAnyPattern(path, patterns) ==
    \E i \in 1..Len(patterns) : Match(patterns[i], path)

Kept(file, includePatterns, excludePatterns) ==
    /\ ~(Len(includePatterns) > 0 /\ ~matchesAnyPattern(file, includePatterns))
    /\ ~matchesAnyPattern(file, excludePatterns)

filterFiles(files, includePatterns, excludePatterns) ==
    SelectSeq(files, LAMBDA file : Kept(file, includePatterns, excludePatterns))

filterArchiveFiles(files, include, exclude) ==
    IF Len(include) = 0 /\ Len(exclude) = 0 THEN files
    ELSE filterFiles(files, include, exclude)

checkFileConflicts(f, files, targetDir) ==
    SelectSeq(files, LAMBDA file : StatErrno(f, Join(targetDir, file)) = "")

handleConflicts(f, files, opts) ==
    Len(checkFileConflicts(f, files, opts.target)) = 0 \/ opts.overwrite

\* GetAvailableArchives of the .goingenv directory: os.ReadDir lists the
\* entries sorted by file name
GetAvailableArchives(dir) ==
    LET names == SortNames(DOMAIN dir)
        archives == SelectSeq(names, LAMBDA name :
                        ~dir[name].isDir /\ HasSuffix(name, ArchiveExtension)) IN
    [i \in 1..Len(archives) |-> Join(GoingEnvDir, archives[i])]

pickArchive(dir, specified) ==
    LET Last(archives) ==
            IF Len(archives) = 0 THEN [err |-> "no archives found", path |-> <<>>]
            ELSE [err |-> "", path |-> archives[Len(archives)]] IN
    IF specified # <<>> THEN [err |-> "", path |-> specified]
    ELSE Last(GetAvailableArchives(dir))

selectArchive(dir, opts) ==
    LET Stat(picked) ==
            IF picked.err # "" THEN picked
            ELSE IF Base(picked.path) \notin DOMAIN dir
                 THEN [err |-> "ENOENT", path |-> <<>>]
                 ELSE picked IN
    Stat(pickArchive(dir, opts.archive))

\* The file read at a path of the .goingenv directory; its regular files
\* all hold the stream of the archive file
FileAt(dir, file, path) ==
    IF Base(path) \in DOMAIN dir /\ ~dir[Base(path)].isDir THEN file ELSE NoFile

CmdResult(pc, err, archive, files, found) ==
    [pc |-> pc, err |-> err, archive |-> archive, files |-> files, conflicts |-> found]

\* runUnpackCommand with the --dry-run flag ignored
runUnpackCommandIgnoringDryRun(dir, f, file, opts) ==
    LET Checked(sel, l, files, found) ==
            IF sel.err # "" THEN CmdResult("done", sel.err, <<>>, <<>>, <<>>)
            ELSE IF l.err # "" THEN CmdResult("done", "decryption failed", sel.path, <<>>, <<>>)
            ELSE IF ~handleConflicts(f, files, opts)
                 THEN CmdResult("done", "file conflicts detected", sel.path, files, found)
                 ELSE CmdResult("executeUnpack", "", sel.path, files, found)
        Filtered(sel, l, files) ==
            Checked(sel, l, files, checkFileConflicts(f, files, opts.target))
        Listed(sel, l) ==
            Filtered(sel, l, filterArchiveFiles(l.archive, opts.include, opts.exclude))
        Selected(sel) == Listed(sel, List(FileAt(dir, file, sel.path), opts.password)) IN
    Selected(selectArchive(dir, opts))

\* runUnpackCommand up to its call of executeUnpack, lines 53-104
runUnpackCommand(dir, f, file, opts) ==
    LET Checked(sel, l, files, found) ==
            IF sel.err # "" THEN CmdResult("done", sel.err, <<>>, <<>>, <<>>)
            ELSE IF l.err # "" THEN CmdResult("done", "decryption failed", sel.path, <<>>, <<>>)
            ELSE IF opts.dryRun THEN CmdResult("done", "", sel.path, files, found)
            ELSE IF ~handleConflicts(f, files, opts)
                 THEN CmdResult("done", "file conflicts detected", sel.path, files, found)
                 ELSE CmdResult("executeUnpack", "", sel.path, files, found)
        Filtered(sel, l, files) ==
            Checked(sel, l, files, checkFileConflicts(f, files, opts.target))
        Listed(sel, l) ==
            Filtered(sel, l, filterArchiveFiles(l.archive, opts.include, opts.exclude))
        Selected(sel) == Listed(sel, List(FileAt(dir, file, sel.path), opts.password)) IN
    Selected(selectArchive(dir, opts))

RunUnpackCommand(opts) ==
    /\ cmdPc = "idle"
    /\ LET Returned(r) ==
           /\ cmdOpts' = opts
           /\ cmdArchive' = r.archive
           /\ filesToExtract' = r.files
           /\ conflicts' = r.conflicts
           /\ cmdErr' = r.err
           /\ cmdPc' = r.pc
       IN Returned(runUnpackCommand(goingenvDir, fs, archiveFile, opts))
    /\ UNCHANGED <<goingenvDir, archiveVars, scanVars, raceVars>>

\* executeUnpack, lines 170-185: the call of Archiver.Unpack
ExecuteUnpack ==
    /\ cmdPc = "executeUnpack"
    /\ UnpackCall([password |-> cmdOpts.password, targetDir |-> cmdOpts.target,
                   overwrite |-> cmdOpts.overwrite, backup |-> cmdOpts.backup])

\* executeUnpack, lines 186-199, once Unpack has returned
ExecuteUnpackReturn ==
    /\ cmdPc = "executeUnpack"
    /\ unpackPc = "done"
    /\ cmdErr' = unpackErr
    /\ cmdPc' = "done"
    /\ UNCHANGED <<goingenvDir, cmdOpts, cmdArchive, filesToExtract, conflicts>>
    /\ UNCHANGED <<archiveVars, scanVars, raceVars>>

\* The archive of the command's runs: .env and .env.production
DotEnvProduction == <<".", "env", ".", "production">>

CliStream ==
    << Entry(MetadataName, OwnerRW, 0, "", <<DotEnv, DotEnvProduction>>),
       Entry(DotEnv, 420, 7000, "E", <<>>),
       Entry(DotEnvProduction, 420, 7000, "P", <<>>) >>

CliTargetTrees ==
    { BaseFs, BaseFs @@ (InTarget(DotEnv) :> FileNode("old", 420, 3000)) }

\* The entries a .goingenv directory may hold: two archives, a file that is
\* no archive, a directory named like an archive
MaxArchives == 3
DirEntryNames ==
    { <<"a", ".", "enc">>, <<"b", ".", "enc">>, <<"c", ".", "txt">>, <<"d", ".", "enc">> }

\* The directories of at most MaxArchives entries, created one after another
GoingenvDirs ==
    UNION { { [name \in names |-> [isDir |-> name = <<"d", ".", "enc">>,
                                   created |-> order[name]]] :
                order \in { o \in [names -> 1..Cardinality(names)] :
                              \A m, n \in names : m # n => o[m] # o[n] } } :
            names \in { ns \in SUBSET DirEntryNames : Cardinality(ns) <= MaxArchives } }

UnpackCommandOptionsSet ==
    [archive : {<<>>, Join(GoingEnvDir, <<"a", ".", "enc">>)},
     target : {TargetDir},
     password : Passwords,
     overwrite : BOOLEAN, backup : BOOLEAN, dryRun : BOOLEAN,
     include : {<<>>, << <<"*", ".", "production">> >>},
     exclude : {<<>>, << DotEnv >>}]

InitCli ==
    /\ tree = EmptyMap
    /\ InitScanVars
    /\ fs \in CliTargetTrees
    /\ archiveFile = ArchiveFileOf(OwnerRW, Encrypt(CliStream, "p", 1, 1).blob)
    /\ InitUnpackVars
    /\ InitPackVars
    /\ InitRaceVars
    /\ goingenvDir \in GoingenvDirs
    /\ InitCmdVars

NextCli ==
    \/ \E opts \in UnpackCommandOptionsSet : RunUnpackCommand(opts)
    \/ ExecuteUnpack
    \/ UnpackSteps
    \/ ExecuteUnpackReturn

SpecCli == InitCli /\ [][NextCli]_vars

(***************************************************************************)
(* Unpack into a target directory that may not exist yet                   *)
(***************************************************************************)

\* A target whose parent directory does not exist either
NestedTarget == <<"/", "n", "/", "t">>

\* A filesystem holding neither target
FreshFs == (Root :> DirNode(DirPerm)) @@ (Getwd :> DirNode(DirPerm))

AnyTargetOptionsSet ==
    [password : {"p"}, targetDir : {TargetDir, NestedTarget}, overwrite : BOOLEAN,
     backup : BOOLEAN]

InitAnyTarget ==
    /\ tree = EmptyMap
    /\ InitScanVars
    /\ fs \in TargetTrees \cup {FreshFs}
    /\ \E stream \in CraftedStreams :
          archiveFile = ArchiveFileOf(OwnerRW, Encrypt(stream, "p", 1, 1).blob)
    /\ InitUnpackVars
    /\ InitPackVars
    /\ InitRaceVars
    /\ InitCliVars

NextAnyTarget ==
    \/ \E opts \in AnyTargetOptionsSet : UnpackCall(opts)
    \/ UnpackSteps

SpecAnyTarget == InitAnyTarget /\ [][NextAnyTarget]_vars

(***************************************************************************)
(* Properties                                                              *)
(***************************************************************************)

\* The files of a filesystem, with what they hold
FilesOf(f) == {<<p, f[p]>> : p \in {q \in DOMAIN f : f[q].kind = "file"}}

\* Where the writer puts an entry of that name
TargetOf(name) == Abs(Join(unpackOpts.targetDir, name))

\* An entry name that breaks one of the three rules of the path-safety
\* validator: absolute, a ".." segment, or out of the target directory
HasDotDotSegment(name) == \E i \in 1..Len(Split(name)) : Split(name)[i] = DotDot
InsideTarget(name) ==
    HasPrefix(TargetOf(name), Abs(unpackOpts.targetDir) \o <<Separator>>)
UnsafeName(name) == IsAbs(name) \/ HasDotDotSegment(name) \/ ~InsideTarget(name)

UnsafePathErrors == {"unsafe path detected", "path traversal detected"}

PayloadIndexes == {i \in 1..Len(tarData) : tarData[i].name # MetadataName}

Returned == unpackPc = "done"
Succeeded == unpackPc = "done" /\ unpackErr = ""

\* C1: an Unpack call that fails on an archive holding an unsafe entry name,
\* wherever the entry sits, returns with no file created, overwritten or
\* renamed.
C1_UnsafeArchiveWritesNoFiles ==
    (/\ Returned
     /\ unpackErr # ""
     /\ \E i \in PayloadIndexes : UnsafeName(tarData[i].name))
        => FilesOf(fs) = FilesOf(fsAtCall)

\* C2: Unpack returns the unsafe-path error whenever the decrypted stream
\* holds a payload entry with an unsafe name, with or without a metadata
\* entry in the stream.
C2_UnsafeEntryYieldsUnsafePathError ==
    (/\ Returned
     /\ \E i \in PayloadIndexes : UnsafeName(tarData[i].name))
        => unpackErr \in UnsafePathErrors

\* The owner read and write bits of a mode, by arithmetic: bit 8 and bit 7
OwnerBits(mode) == ((mode \div 128) % 4) * 128

C9_SkipExistingWithoutOverwrite ==
    [][(/\ unpackPc = "handleExisting"
        /\ TargetOf(header.name) \in DOMAIN fs
        /\ ~unpackOpts.overwrite)
           => /\ fs' = fs
              /\ stdout' = Append(stdout, targetPath)
              /\ unpackPc' = "next"
              /\ unpackErr' = ""]_vars

C9_Witness ==
    /\ Succeeded
    /\ unpackOpts.backup
    /\ ~unpackOpts.overwrite
    /\ Len(tarData) >= 2
    /\ stdout # <<>>
    /\ Abs(stdout[1]) = TargetOf(tarData[1].name)
    /\ IsFileAt(fsAtCall, Abs(stdout[1]))
    /\ fs[Abs(stdout[1])] = fsAtCall[Abs(stdout[1])]
    /\ Abs(stdout[1]) \o BackupSuffix \notin DOMAIN fs
    /\ DOMAIN written # {}

\* The targets of the payload entry i and of the backup made for it
EntryTarget(i) == TargetOf(tarData[i].name)
EntryBackup(i) == EntryTarget(i) \o BackupSuffix

\* C10 as claimed: after a successful Unpack with overwrite and backup,
\* for every entry whose target was a file before the call, target.backup
\* holds what the target held before the call and the target holds the
\* archived payload.
C10_BackupHoldsPreviousContent ==
    (Succeeded /\ unpackOpts.overwrite /\ unpackOpts.backup)
        => \A i \in PayloadIndexes :
              IsFileAt(fsAtCall, EntryTarget(i))
                 => /\ IsFileAt(fs, EntryBackup(i))
                    /\ fs[EntryBackup(i)].data = fsAtCall[EntryTarget(i)].data
                    /\ IsFileAt(fs, EntryTarget(i))
                    /\ fs[EntryTarget(i)].data = tarData[i].data

\* No other payload entry touches the target or the backup of entry i, or
\* a directory above its target
Alone(i) ==
    \A j \in PayloadIndexes \ {i} :
        /\ {EntryTarget(j), EntryBackup(j)} \cap {EntryTarget(i), EntryBackup(i)} = {}
        /\ EntryTarget(j) \notin Ancestors(EntryTarget(i))

\* C10 amended: the same, for the entries that are alone on their target.
C10_BackupHoldsPreviousContentWhenAlone ==
    (Succeeded /\ unpackOpts.overwrite /\ unpackOpts.backup)
        => \A i \in PayloadIndexes :
              (IsFileAt(fsAtCall, EntryTarget(i)) /\ Alone(i))
                 => /\ IsFileAt(fs, EntryBackup(i))
                    /\ fs[EntryBackup(i)].data = fsAtCall[EntryTarget(i)].data
                    /\ IsFileAt(fs, EntryTarget(i))
                    /\ fs[EntryTarget(i)].data = tarData[i].data

C10_Witness ==
    /\ Succeeded
    /\ unpackOpts.overwrite
    /\ unpackOpts.backup
    /\ \E i \in PayloadIndexes :
          /\ IsFileAt(fsAtCall, EntryTarget(i))
          /\ Alone(i)
          /\ fs[EntryBackup(i)].data = "old"
          /\ fs[EntryTarget(i)].data = tarData[i].data

\* Pack has returned and nobody has touched the output file since
PackReturned == packPc = "done" /\ ~tampered
Packed == PackReturned /\ packErr = ""

\* C3: whenever Pack returns an error, the file at the output path is
\* absent or is what it was before the call.
C3_NoPartialOutputOnFailure ==
    (PackReturned /\ packErr # "")
        => (~archiveFile.exists \/ archiveFile = outputAtCall)

\* The target directory holds nothing new
TargetUnchanged == fs = fsAtCall /\ written = EmptyMap

\* C4: on an archive Pack produced with a password, List and Unpack with
\* any other password return an error, List returns no entries, and the
\* failed Unpack leaves the filesystem as it was at the call.
C4_WrongPasswordFails ==
    Packed =>
        /\ (listResult.called /\ listResult.password # packOpts.password)
              => (listResult.err # "" /\ listResult.archive = <<>>)
        /\ (unpackPc # "idle" /\ unpackOpts.password # packOpts.password)
              => (unpackPc = "done" /\ unpackErr # "" /\ TargetUnchanged)

C4_Witness ==
    /\ Packed
    /\ Len(tarWriter) = 3
    /\ listResult.called
    /\ listResult.password # packOpts.password
    /\ listResult.err = "failed to decrypt archive"
    /\ unpackPc = "done"
    /\ unpackOpts.password # packOpts.password
    /\ unpackErr = "failed to decrypt archive"
    /\ TargetDir \notin DOMAIN fs

\* The relative paths of opts.Files are those of a set of files
DistinctFiles(files) ==
    \A i, j \in 1..Len(files) : files[i].relativePath = files[j].relativePath => i = j

FilesUnder(f, dir) == {p \in DOMAIN f : IsFileAt(f, p) /\ Under(p, dir) /\ p # dir}

\* C5: Unpack, with the password of the Pack, of what Pack wrote for a
\* non-empty set of files, into an empty directory, succeeds and leaves
\* exactly one file per packed file, at its relative path under the target,
\* with the content and the modification time of the packed file.
C5_RoundTrip ==
    (/\ Packed
     /\ DistinctFiles(packOpts.files)
     /\ unpackPc = "done"
     /\ unpackOpts.password = packOpts.password
     /\ IsDirAt(fsAtCall, Abs(unpackOpts.targetDir))
     /\ FilesUnder(fsAtCall, Abs(unpackOpts.targetDir)) = {})
        => /\ unpackErr = ""
           /\ FilesUnder(fs, Abs(unpackOpts.targetDir))
                 = {TargetOf(packOpts.files[i].relativePath) :
                       i \in 1..Len(packOpts.files)}
           /\ \A i \in 1..Len(packOpts.files) :
                 LET t == TargetOf(packOpts.files[i].relativePath)
                     src == fs[Abs(packOpts.files[i].path)] IN
                 /\ IsFileAt(fs, t)
                 /\ fs[t].data = src.data
                 /\ fs[t].mtime = src.mtime

\* C6: once a byte of the archive file is flipped, in the salt, the nonce,
\* the ciphertext or the tag, Decrypt fails with the authentication error
\* for every password, List returns an error and no entries, and Unpack
\* returns an error and extracts nothing.
C6_TamperDetected ==
    tampered =>
        /\ \A password \in Passwords : Decrypt(archiveFile.blob, password).err = "Auth"
        /\ listResult.called => (listResult.err # "" /\ listResult.archive = <<>>)
        /\ unpackPc # "idle"
              => (unpackPc = "done" /\ unpackErr # "" /\ TargetUnchanged)

C6_Witness ==
    /\ tampered
    /\ packErr = ""
    /\ Len(tarWriter) = 3
    /\ archiveFile.blob.flipCt
    /\ listResult.called
    /\ listResult.password = packOpts.password
    /\ listResult.err = "failed to decrypt archive"
    /\ unpackPc = "done"
    /\ unpackOpts.password = packOpts.password
    /\ unpackErr = "failed to decrypt archive"

\* C8: the output file has mode 0o600 from the moment it is open for the
\* write of the ciphertext, and when Pack has returned without an error,
\* whether or not there was a file at the output path before the call.
C8_OutputModeOwnerOnly ==
    (packPc = "writeOutput" \/ (packPc = "done" /\ packErr = ""))
        => (archiveFile.exists /\ archiveFile.mode = OwnerRW)

\* The rename of the current target to its .backup name fails
BackupRenameFails ==
    /\ unpackPc = "handleExisting"
    /\ TargetOf(header.name) \in DOMAIN fs
    /\ unpackOpts.overwrite
    /\ unpackOpts.backup
    /\ Rename(fs, targetPath, targetPath \o BackupSuffix).err # ""

\* C11: with overwrite and backup set, when the rename of an existing
\* target to its .backup name fails, Unpack returns an error at that entry
\* with the filesystem as the step found it, and once Unpack has returned
\* no entry is read and nothing is written any more.
C11_BackupFailureAborts ==
    [][/\ BackupRenameFails
          => /\ unpackPc' = "done"
             /\ unpackErr' = "failed to create backup"
             /\ fs' = fs
             /\ tarIdx' = tarIdx
       /\ Returned
          => /\ fs' = fs
             /\ unpackPc' = unpackPc
             /\ tarIdx' = tarIdx
             /\ unpackErr' = unpackErr]_vars

C11_Witness ==
    /\ Returned
    /\ unpackErr = "failed to create backup"
    /\ tarIdx = 1
    /\ Len(tarData) = 2
    /\ tarData[2].name # MetadataName
    /\ ~UnsafeName(tarData[2].name)
    /\ IsFileAt(fs, EntryTarget(1))
    /\ fs[EntryTarget(1)].data = "old"
    /\ IsDirAt(fs, EntryBackup(1))
    /\ fs = fsAtCall

\* The decrypted stream starts with the metadata entry
MetadataLeads == tarData # <<>> /\ tarData[1].name = MetadataName

\* C12: an Unpack call on a decrypted stream whose first entry is not
\* metadata.json writes no payload entry: no file of the filesystem is
\* created or changed.
C12_NoWriteWithoutLeadingMetadata ==
    (unpackPc # "idle" /\ unpackErr # "failed to decrypt archive" /\ ~MetadataLeads)
        => (written = EmptyMap /\ FilesOf(fs) = FilesOf(fsAtCall))

\* A plaintext stream in the layout of Pack for the first n of opts.Files:
\* metadata.json first, listing all of opts.Files in order, then the
\* payload of the i-th listed file as entry i + 1
PackLayout(stream, n) ==
    /\ Len(stream) = n + 1
    /\ stream[1].name = MetadataName
    /\ Len(stream[1].files) = Len(packOpts.files)
    /\ \A i \in 1..n :
          /\ stream[i + 1].name = stream[1].files[i]
          /\ stream[i + 1].name = packOpts.files[i].relativePath
          /\ stream[i + 1].data = fs[Abs(packOpts.files[i].path)].data

\* C13: the stream Pack builds starts with metadata.json, written before
\* any payload, and its entry i + 1 is the payload of the i-th file of the
\* metadata list; the stream Pack encrypts has one payload per listed file.
C13_MetadataFirstAndOrdered ==
    /\ packPc = "writeFiles" => PackLayout(tarWriter, packIdx)
    /\ (packPc \in {"openOutput", "writeOutput"} \/ Packed)
          => /\ PackLayout(tarWriter, Len(packOpts.files))
             /\ encryptedData.sealed.plain = tarWriter
    /\ packPc \in {"idle", "writeMetadata"} => tarWriter = <<>>

C13_Witness ==
    /\ Packed
    /\ Len(tarWriter) = 3
    /\ tarWriter[2].name = <<"x", "/", "b">>
    /\ tarWriter[3].name = <<"a">>
    /\ tarWriter[1].files = << <<"x", "/", "b">>, <<"a">> >>
    /\ archiveFile.blob.sealed.plain = tarWriter

\* What the List call decrypted
Listed == Decrypt(archiveFile.blob, listResult.password)

\* C14: List of a stream that decrypts and whose first entry is not named
\* metadata.json returns the archive-format error and no metadata, also
\* when a metadata.json entry comes later in the stream.
C14_ListRejectsOtherFirstEntry ==
    (/\ listResult.called
     /\ archiveFile.exists
     /\ Listed.err = ""
     /\ Listed.plain # <<>>
     /\ Listed.plain[1].name # MetadataName)
        => /\ listResult.err = "invalid archive format"
           /\ listResult.archive = <<>>

C14_Witness ==
    /\ listResult.called
    /\ Listed.err = ""
    /\ Len(Listed.plain) = 2
    /\ Listed.plain[1].name = <<"a">>
    /\ Listed.plain[2].name = MetadataName
    /\ Listed.plain[2].files # <<>>
    /\ listResult.err = "invalid archive format"
    /\ listResult.archive = <<>>

\* C15: a List call, whatever it returns (the metadata, a decryption
\* error, a format error, a read error for a missing file), leaves every
\* file and directory as it was: the tree, the archive file and the
\* temporary file are unchanged and nothing is printed.
C15_ListHasNoSideEffects ==
    [][listResult' # listResult
          => /\ fs' = fs
             /\ archiveFile' = archiveFile
             /\ tmpFile' = tmpFile
             /\ stdout' = stdout]_vars

C15_Witness ==
    /\ listResult.called
    /\ listResult.err = ""
    /\ Len(listResult.archive) = 2
    /\ Packed
    /\ unpackPc = "idle"
    /\ fs \in {SourceFs, SourceFs @@ (TargetDir :> DirNode(DirPerm))}
    /\ archiveFile = ArchiveFileOf(archiveFile.mode, encryptedData)

\* C16: a Pack call with an empty file list returns the pack error "no
\* files to pack" in that one step: no temporary file is made, and the
\* tree and the file at the output path, present or not, stay as they were.
C16_EmptyPackRejected ==
    [][(packPc = "idle" /\ packPc' # "idle" /\ Len(packOpts'.files) = 0)
          => /\ packPc' = "done"
             /\ packErr' = "no files to pack"
             /\ tmpFile' = NoTmp
             /\ tmpFile = NoTmp
             /\ archiveFile' = archiveFile
             /\ fs' = fs]_vars

C16_Witness ==
    /\ packPc = "done"
    /\ Len(packOpts.files) = 0
    /\ packErr = "no files to pack"
    /\ ~tampered
    /\ tmpFile = NoTmp
    /\ archiveFile = OldArchive
    /\ outputAtCall = OldArchive

\* depth = the number of path separators of the path relative to the root
Depth(relPath) == Count(relPath, Separator)

ScanReturned == scanPc = "done"
ScanSucceeded == scanPc = "done" /\ scanErr = ""

\* The path, relative to the root of the scan, of a path of the walk
RelOf(path) == Rel(scanOpts.rootPath, path).rel

\* The directories above a path of the walk, each with its trailing separator
DirsAbove(path) == {SubSeq(path, 1, k) : k \in {j \in 1..Len(path) : path[j] = Separator}}

\* The content of the tree was walked from its root with the patterns of
\* the configuration or those of the caller, all valid
ChainScanned ==
    /\ ScanSucceeded
    /\ tree = PlacedAt(DepthChain, ScanRoots)

\* C17: whatever max_depth the caller passes, no returned file is deeper
\* than it below the root, nothing below a directory deeper than it is
\* visited, and the scan of .env, a/.env, a/b/.env, ... with max_depth 3
\* returns exactly the files of depth 0 to 3.
C17_DepthCeiling ==
    /\ \A i \in 1..Len(scanFiles) :
          Depth(scanFiles[i].relativePath) <= scanOpts.maxDepth
    /\ \A i \in 1..Len(visited) :
          \A d \in DirsAbove(RelOf(visited[i])) :
              Depth(d) - 1 <= scanOpts.maxDepth
    /\ (ChainScanned /\ scanOpts.maxDepth = 3 /\ ~shouldSkipDir(scanCtx, scanCtx.root))
          => {scanFiles[i].relativePath : i \in 1..Len(scanFiles)}
                = {Join(ChainDir(k), DotEnv) : k \in 0..3}

\* The exclude lists in force: those the caller passed and those of the
\* scan context
FileExcludes == {scanOpts.envExcludePatterns, scanCtx.envExclude}
DirExcludes == {scanOpts.excludePatterns, scanCtx.exclude}

\* A directory at or above the path, root of the scan included, matches a
\* directory-exclude pattern
UnderExcludedDir(path, patterns) ==
    \/ matchesAny(scanCtx.root \o <<Separator>>, patterns)
    \/ \E d \in DirsAbove(path) : matchesAny(d, patterns)

\* The directories above a path of the walk that the walk went through:
\* the root of the scan and those below it
WalkedDirsAbove(path) ==
    {d \in DirsAbove(path) :
        scanCtx.root = <<".">> \/ HasPrefix(d, scanCtx.root \o <<Separator>>)}

\* C18: at every point of a scan, no collected file has a base name that
\* matches a file-exclude pattern or lies under a directory whose path with
\* a trailing separator matches a directory-exclude pattern, and nothing
\* beneath such a directory has been visited.
C18_ScannerExclusion ==
    scanPc \in {"walk", "done"} =>
        /\ \A i \in 1..Len(scanFiles) :
              /\ \A patterns \in FileExcludes :
                    ~matchesAny(Base(scanFiles[i].path), patterns)
              /\ \A patterns \in DirExcludes :
                    ~UnderExcludedDir(scanFiles[i].path, patterns)
        /\ \A i \in 1..Len(visited) :
              \A patterns \in DirExcludes :
                  \A d \in WalkedDirsAbove(visited[i]) : ~matchesAny(d, patterns)

C18_Witness ==
    /\ ScanSucceeded
    /\ tree = PlacedAt(ExcludeTree, ScanRoots)
    /\ scanOpts.rootPath = <<"/", "r">>
    /\ scanOpts.excludePatterns = <<NodeModulesPattern>>
    /\ scanOpts.envExcludePatterns = <<ExamplePattern>>
    /\ scanOpts.patterns = <<EnvPattern>>
    /\ scanOpts.maxDepth = MaxTreeDepth
    /\ {scanFiles[i].relativePath : i \in 1..Len(scanFiles)}
          = {DotEnv, <<"a", "/", ".", "env">>}
    /\ \E i \in 1..Len(visited) : visited[i] = <<"/", "r", "/", "node_modules">>
    /\ \E i \in 1..Len(visited) : visited[i] = <<"/", "r", "/", "a", "/", "node_modules">>
    /\ \E i \in 1..Len(visited) : visited[i] = <<"/", "r", "/", ".", "env", ".", "example">>

\* The regular files of the tree below the root of the scan, by their path
\* relative to it
ScanRootAbs == Abs(scanOpts.rootPath)

FilesBelowRoot ==
    {q \in DOMAIN tree :
        /\ tree[q].kind = "file"
        /\ HasPrefix(q, ScanRootAbs \o <<Separator>>)}

RelToRoot(q) == SubSeq(q, Len(ScanRootAbs) + 2, Len(q))

\* The caller passed every list of patterns and a depth, so that no default
\* of the configuration is in force
NoDefaultInForce ==
    /\ scanOpts.maxDepth # 0
    /\ scanOpts.patterns # <<>>
    /\ scanOpts.envExcludePatterns # <<>>
    /\ scanOpts.excludePatterns # <<>>

\* A file the scan has to return: its name matches an include pattern and no
\* file-exclude pattern, it is within the size limit, no directory between
\* the root and the file matches a directory-exclude pattern, and it is not
\* deeper than max_depth
Eligible(q) ==
    /\ matchesAny(Base(q), scanOpts.patterns)
    /\ ~matchesAny(Base(q), scanOpts.envExcludePatterns)
    /\ tree[q].size <= Config.maxFileSize
    /\ \A d \in DirsAbove(RelToRoot(q)) : ~matchesAny(d, scanOpts.excludePatterns)
    /\ Depth(RelToRoot(q)) <= scanOpts.maxDepth

\* C19: when every file of the tree below the root is such a file, the scan
\* succeeds and returns each of them exactly once, wherever the root is.
C19_ScannerInclusion ==
    (/\ ScanReturned
     /\ compilePatterns(scanOpts.patterns) = ""
     /\ compilePatterns(scanOpts.excludePatterns) = ""
     /\ compilePatterns(scanOpts.envExcludePatterns) = ""
     /\ NoDefaultInForce
     /\ \A q \in DOMAIN tree : tree[q].kind # "symlink" /\ tree[q].access = "ok"
     /\ \A q \in FilesBelowRoot : Eligible(q))
        => /\ scanErr = ""
           /\ \A q \in FilesBelowRoot :
                 Cardinality({i \in 1..Len(scanFiles) : Abs(scanFiles[i].path) = q}) = 1

IsSymlink(path) == Abs(path) \in DOMAIN tree /\ tree[Abs(path)].kind = "symlink"

\* C20: at every point of a scan no collected file is a symbolic link,
\* whatever the link points to and whatever its name, and no path below a
\* symbolic link is visited.
C20_SymlinksNeverInOutput ==
    /\ \A i \in 1..Len(scanFiles) : ~IsSymlink(scanFiles[i].path)
    /\ \A i \in 1..Len(visited) :
          \A d \in DirsAbove(visited[i]) : ~IsSymlink(SubSeq(d, 1, Len(d) - 1))


\* The filesystem error met at a path of the walk: the entry cannot be
\* stat'ed, the directory cannot be read, or the file about to be collected
\* cannot be opened and read
FsErrorAt(path) ==
    \/ LstatErrno(tree, path) # ""
    \/ ReadDirErrno(tree, path) # ""
    \/ /\ Lstat(tree, path).kind # "dir"
       /\ ~exceedsDepth(Rel(scanCtx.root, path).rel, scanCtx.maxDepth)
       /\ shouldInclude(scanCtx, Base(path), Lstat(tree, path).size)
       /\ calculateChecksum(tree, path).err # ""

Collected(path) ==
    /\ ~FsErrorAt(path)
    /\ Lstat(tree, path).kind # "dir"
    /\ ~exceedsDepth(Rel(scanCtx.root, path).rel, scanCtx.maxDepth)
    /\ shouldInclude(scanCtx, Base(path), Lstat(tree, path).size)

\* C21: a filesystem error at a visited path (stat, directory read or
\* checksum) ends the scan at that path with a non-empty error, and a scan
\* that returns an error returns no file, however many it had collected.
C21_ErrorReturnsNoFiles ==
    /\ \A i \in 1..Len(visited) :
          FsErrorAt(visited[i]) => i = Len(visited) /\ ScanReturned /\ scanErr # ""
    /\ (ScanReturned /\ scanErr # "") => scanFiles = <<>>

C21_Witness ==
    /\ ScanReturned
    /\ scanErr = "EACCES"
    /\ scanFiles = <<>>
    /\ \E i \in 1..(Len(visited) - 1) : Collected(visited[i])


InvalidPatternIn(patterns) == \E i \in 1..Len(patterns) : ~patterns[i].valid

InvalidPatternPassed ==
    \/ InvalidPatternIn(scanOpts.patterns)
    \/ InvalidPatternIn(scanOpts.envExcludePatterns)
    \/ InvalidPatternIn(scanOpts.excludePatterns)

\* C22: a scan called with an include, file-exclude or directory-exclude
\* pattern that does not compile has, from the call on, returned an error,
\* visited no filesystem entry and collected no file.
C22_InvalidPatternAbortsBeforeWalk ==
    (scanPc # "idle" /\ InvalidPatternPassed)
        => /\ ScanReturned
           /\ scanErr # ""
           /\ visited = <<>>
           /\ scanFiles = <<>>

C22_Witness ==
    /\ ScanReturned
    /\ ~InvalidPatternIn(scanOpts.patterns)
    /\ ~InvalidPatternIn(scanOpts.envExcludePatterns)
    /\ scanOpts.excludePatterns = <<NodeModulesPattern, BadPattern>>
    /\ scanErr = "failed to compile exclude patterns"
    /\ visited = <<>>
    /\ \E q \in DOMAIN tree : tree[q].kind = "file"


AllReturned == \A p \in Packers : packers[p].pc = "done"
Wrote(p) == packers[p].pc = "done" /\ packers[p].err = ""

\* C23: once all the Pack calls on one output path have returned, two or
\* more of them without error, the output file holds exactly the complete
\* ciphertext of one of them.
C23_LastWriterWins ==
    (AllReturned /\ Cardinality({p \in Packers : Wrote(p)}) >= 2)
        => \E p \in Packers :
              Wrote(p) /\ outputFile.bytes = Bytes(packers[p].encryptedData)


CmdReturned == cmdPc = "done"

\* The selected archive exists and opens with the password of the command
Listable ==
    /\ cmdArchive # <<>>
    /\ List(FileAt(goingenvDir, archiveFile, cmdArchive), cmdOpts.password).err = ""

\* C24: a step of the unpack command run with --dry-run changes nothing in
\* the filesystem and calls no Unpack, and when the archive decrypts and
\* lists the command has returned without error, whatever the conflicts
\* and the --overwrite and --backup flags.
C24_DryRunExtractsNothing ==
    [][ (cmdPc' # "idle" /\ cmdOpts'.dryRun)
            => /\ fs' = fs
               /\ archiveFile' = archiveFile
               /\ unpackPc' = "idle"
               /\ Listable' => (CmdReturned' /\ cmdErr' = "") ]_vars

C24_Witness ==
    /\ CmdReturned
    /\ cmdOpts.dryRun
    /\ cmdOpts.overwrite
    /\ cmdOpts.backup
    /\ Listable
    /\ conflicts # <<>>
    /\ cmdErr = ""
    /\ fs[InTarget(DotEnv)].data = "old"
    /\ InTarget(DotEnvProduction) \notin DOMAIN fs


\* The command ran Unpack and returned without error
Extracted == CmdReturned /\ cmdErr = "" /\ ~cmdOpts.dryRun

\* C25: when the unpack command has extracted with --include or --exclude
\* patterns, every file written in the target is one of the archive's files
\* that match an include pattern (when there is one) and no exclude pattern.
C25_OnlyFilteredFilesWritten ==
    Extracted
        => \A q \in DOMAIN written :
              \E i \in 1..Len(filesToExtract) :
                 /\ q = Join(cmdOpts.target, filesToExtract[i])
                 /\ Kept(filesToExtract[i], cmdOpts.include, cmdOpts.exclude)

\* C26: the unpack command run with --backup and without --overwrite, with
\* the password of the archive, over a target that holds a file of the
\* archive, returns without error.
C26_BackupWithoutOverwriteSucceeds ==
    (/\ CmdReturned
     /\ Listable
     /\ ~cmdOpts.dryRun
     /\ cmdOpts.backup
     /\ ~cmdOpts.overwrite
     /\ conflicts # <<>>)
        => cmdErr = ""

\* The archives of the .goingenv directory
Archives ==
    {name \in DOMAIN goingenvDir :
        ~goingenvDir[name].isDir /\ HasSuffix(name, ArchiveExtension)}

\* C27: the archive the unpack command selects without -f/--file is the
\* archive of the .goingenv directory that was created last.
C27_SelectsMostRecentArchive ==
    (cmdPc # "idle" /\ cmdOpts.archive = <<>> /\ cmdArchive # <<>>)
        => /\ Base(cmdArchive) \in Archives
           /\ \A name \in Archives :
                 goingenvDir[name].created <= goingenvDir[Base(cmdArchive)].created


\* The entry Unpack works on and the path its name validates to, read from
\* the stream and the options alone
CurrentEntry == tarData[tarIdx]
Validated == safePath(CurrentEntry.name, unpackOpts.targetDir)
EntrySteps == {"ensureDir", "handleExisting", "extractFile"}

\* C28: Unpack takes the steps of an entry in the order validate, ensure
\* the parent directory, handle the existing target, write the payload; a
\* step that changes the filesystem or prints belongs to a payload entry
\* whose name has passed validation, and what it does is determined by that
\* entry, the options and the filesystem alone.
C28_EntryStepsInOrder ==
    [][ /\ unpackPc = "extractEntry" => unpackPc' \in {"ensureDir", "next", "done"}
        /\ unpackPc = "ensureDir" => unpackPc' \in {"handleExisting", "done"}
        /\ unpackPc = "handleExisting" => unpackPc' \in {"extractFile", "next", "done"}
        /\ unpackPc = "extractFile" => unpackPc' \in {"next", "done"}
        /\ (fs' # fs \/ stdout' # stdout)
              => /\ unpackPc \in EntrySteps
                 /\ CurrentEntry.name # MetadataName
                 /\ Validated.err = ""
        /\ unpackPc = "ensureDir" => fs' = ensureDir(fs, Validated.target).fs
        /\ unpackPc = "handleExisting"
              => fs' = handleExisting(fs, Validated.target, unpackOpts.overwrite,
                                      unpackOpts.backup).fs
        /\ unpackPc = "extractFile"
              => fs' = extractFile(fs, Validated.target, CurrentEntry).fs ]_vars

C28_Witness ==
    /\ unpackPc = "done"
    /\ unpackErr = ""
    /\ tarIdx = 2
    /\ \A i \in 1..2 : tarData[i].name # MetadataName
    /\ Cardinality(DOMAIN written) = 2
    /\ fs # fsAtCall


\* The paths Unpack has created, changed or moved away since it was called
Touched ==
    {q \in DOMAIN fs \cup DOMAIN fsAtCall :
        \/ q \notin DOMAIN fs
        \/ q \notin DOMAIN fsAtCall
        \/ fs[q] # fsAtCall[q]}

AbsTarget == Abs(unpackOpts.targetDir)
LexicallyInside(q) == HasPrefix(q, AbsTarget \o <<Separator>>)

\* C29 as stated: during an Unpack call every path it has created, changed
\* or renamed is lexically inside the target directory.
C29_EveryWriteInsideTarget ==
    unpackPc # "idle" => \A q \in Touched : LexicallyInside(q)

\* A directory Unpack made because the target directory or one of the
\* directories above it was missing
MadeOnTheWay(q) ==
    /\ q \in {AbsTarget} \cup Ancestors(AbsTarget)
    /\ q \notin DOMAIN fsAtCall
    /\ IsDirAt(fs, q)

\* C29, amended: during an Unpack call every path it has created, changed
\* or renamed is lexically inside the target directory, or is the target
\* directory or a directory above it that was missing and that it made;
\* every file it has written is inside the target directory.
C29_EveryWriteInsideTargetOrOnTheWay ==
    unpackPc # "idle"
        => /\ \A q \in Touched : LexicallyInside(q) \/ MadeOnTheWay(q)
           /\ \A q \in DOMAIN written : LexicallyInside(q)

C29_Witness ==
    /\ unpackPc = "done"
    /\ unpackErr = ""
    /\ unpackOpts.targetDir = NestedTarget
    /\ IsDirAt(fs, <<"/", "n">>)
    /\ IsDirAt(fs, NestedTarget)
    /\ IsFileAt(fs, Join(NestedTarget, <<"a", "/", "b">>))
    /\ fsAtCall = FreshFs


\* The name Unpack validated last satisfies the three rules of the validator
LastNameSafe ==
    /\ tarIdx >= 1
    /\ header = tarData[tarIdx]
    /\ header.name # MetadataName
    /\ ~UnsafeName(header.name)

\* C30: an entry name that is not absolute, has no ".." segment and joins
\* to a path lexically inside the target directory passes validation with
\* that path, so Unpack never ends with a path-safety error on such a name,
\* in particular on the relative paths Pack stored.
C30_SafeNamesAccepted ==
    LastNameSafe
        => /\ safePath(header.name, unpackOpts.targetDir).err = ""
           /\ safePath(header.name, unpackOpts.targetDir).target
                 = Join(unpackOpts.targetDir, header.name)
           /\ unpackErr \notin UnsafePathErrors

=============================================================================
